---- MODULE Spec2Model ----
(***************************************************************************)
(* Verification model of PersonsGameCommon.                                *)
(*                                                                         *)
(* Part 1: InventoryController (src/src/inventory.ts).  One controller     *)
(* instance is modelled: its holder, its slots, its crafting RNG, and the  *)
(* transaction (or error) returned by the last call.  The wall-clock       *)
(* lastUpdate field, positions and health are left out: no operation of    *)
(* the controller reads them.                                              *)
(*                                                                         *)
(* Part 2: CellController (src/src/npc.ts), the planner of the NPCs of a   *)
(* cell, with HarvestResourceController (src/src/resources.ts): the state  *)
(* of one run, the events it emits, and the replay of the events of an     *)
(* object.                                                                 *)
(***************************************************************************)
EXTENDS Integers, Sequences, FiniteSets, TLC

(***************************************************************************)
(* Bounds of the model.                                                    *)
(***************************************************************************)
\* largest number of inventory columns a holder is constructed with
MaxColumns == 2
\* number of distinct loose STICK items in the world
NumSticks == 2
\* largest amount carried by a loose item handed to pickUpItem
MaxItemAmount == 5
\* number of draws taken from the crafting RNG
MaxRngDraws == 2
\* number of calls made on one controller
MaxCalls == 4
\* milliseconds of game time a cell is run for
MaxMilliseconds == 8000
\* number of NPCs of a cell
NumNpcs == 2
\* number of trees of a cell
NumResources == 2
\* largest number of inventory columns of the NPCs of a cell
NpcColumns == 2
\* number of inventory columns of the stockpile of a cell
StockpileColumns == 3

(***************************************************************************)
(* Object types and stack sizes (src/src/types/GameTypes.ts).              *)
(***************************************************************************)
ENetworkObjectType == {"STICK", "WOOD", "WATTLE_WALL"}

stackSizes == [STICK |-> 10, WATTLE_WALL |-> 4]

getMaxStackSize(objectType) ==
    IF objectType \in DOMAIN stackSizes THEN stackSizes[objectType] ELSE 1

\* the one recipe of the game: 10 STICK -> 1 WATTLE_WALL
listOfRecipes ==
    << [product |-> "WATTLE_WALL",
        items   |-> << [item |-> "STICK", quantity |-> 10] >>] >>

\* ICraftingRecipe values handed to craftItem: the game's recipe and two
\* further well-typed recipes (several inputs, partial use of a stack)
Recipes ==
    { listOfRecipes[1],
      [product |-> "WATTLE_WALL",
       items   |-> << [item |-> "STICK", quantity |-> 2],
                      [item |-> "WOOD", quantity |-> 1] >>],
      [product |-> "WOOD",
       items   |-> << [item |-> "STICK", quantity |-> 3] >>] }

\* ICraftingRecipeItem values handed to removeCraftingRecipeItem
RecipeItems ==
    { [item |-> "WATTLE_WALL", quantity |-> 1],
      [item |-> "STICK", quantity |-> 3],
      [item |-> "STICK", quantity |-> 10] }

Null == "null"

(***************************************************************************)
(* Items.  An id is the pair a template string such as `stick-${index}`    *)
(* is built from.                                                          *)
(***************************************************************************)
Min(a, b) == IF a < b THEN a ELSE b

GroundIds ==
    { <<"stick", i>> : i \in 0 .. (NumSticks - 1) } \cup { <<"wood", 0>> }

TypeOfGroundId(id) == IF id[1] = "stick" THEN "STICK" ELSE "WOOD"

\* a loose item of the world: no owner, a well-formed amount
GroundItem(id, amount) ==
    [ id                |-> id,
      objectType        |-> TypeOfGroundId(id),
      amount            |-> amount,
      isInInventory     |-> FALSE,
      grabbedByPersonId |-> Null,
      grabbedByNpcId    |-> Null,
      insideStockpile   |-> Null ]

GroundItems ==
    UNION { { GroundItem(id, a) :
                a \in 1 .. Min(MaxItemAmount, getMaxStackSize(TypeOfGroundId(id))) } :
            id \in GroundIds }

(***************************************************************************)
(* State of one InventoryController.                                       *)
(***************************************************************************)
VARIABLES
    calls,      \* number of calls made on the controller so far
    holder,     \* inventoryHolder: id, kind (person or npc), rows, columns
    slots,      \* this.slots
    rng,        \* this.rng: number of values drawn from the crafting RNG
    before,     \* this.slots as it was when the last call started
    ret,        \* what the last call returned or threw
    currentMilliseconds,    \* CellController: this.currentMilliseconds
    state,      \* CellController: this.state
    objects,    \* CellController: this.objects
    thrown,     \* CellController: the error that ended run()
    cellLock,   \* CellController: the lock of the cell, << >> when there is none
    harvest,    \* HarvestResourceController: a controller and the one resumed from it
    building,   \* ConstructionController / StockpileController and their inventory
    walk        \* applyPathToNpc: an NPC, the time of the call and what it returned

inventoryVars == << calls, holder, slots, rng, before, ret >>

cellVars == << currentMilliseconds, state, objects, thrown, cellLock >>

resourceVars == << harvest >>

constructionVars == << building >>

pathVars == << walk >>

vars == << calls, holder, slots, rng, before, ret,
           currentMilliseconds, state, objects, thrown, cellLock,
           harvest, building, walk >>

NoError == "none"
NotEnoughRoom == "Not enough room for item"
NotEnoughMaterials == "Not enough materials for crafting"

\* the controller is written `this': its holder's id, kind, rows and columns
isNpc(this) == this.kind = "npc"
isPerson(this) == ~isNpc(this)
numMaxSlots(this) == this.rows * this.columns

(***************************************************************************)
(* Sequence helpers.                                                       *)
(***************************************************************************)
RECURSIVE SumAmounts(_)
SumAmounts(s) ==
    IF s = << >> THEN 0 ELSE Head(s).amount + SumAmounts(Tail(s))

TotalOfType(s, t) ==
    LET OfType(x) == x.objectType = t IN SumAmounts(SelectSeq(s, OfType))

IdsOf(s) == { s[i].id : i \in DOMAIN s }

(***************************************************************************)
(* The crafting RNG.  seedrandom's alea generator is a library outside the *)
(* repository; the controller only uses that its state advances with each  *)
(* draw and that int32() is a function of the state.  The state is the     *)
(* number of values drawn; the value drawn is a mix of it in int32 range.   *)
(***************************************************************************)
Int32Of(craftingState) == ((craftingState * 48271 + 12345) % 2147483647) - 1073741824

\* newItemId: `${this.inventoryHolder.id}-${this.rng.int32()}`
newItemId(this, craftingState) == << this.id, Int32Of(craftingState) >>

\* newCraftingItemId: `crafted-item-${this.newItemId()}`
newCraftingItemId(this, craftingState) == << "crafted-item" >> \o newItemId(this, craftingState)

\* createItemType: the item, built from the id drawn in RNG state `craftingState'
createItemType(this, objectType, craftingState) ==
    [ id                |-> newCraftingItemId(this, craftingState),
      objectType        |-> objectType,
      amount            |-> 1,
      isInInventory     |-> TRUE,
      grabbedByPersonId |-> IF isPerson(this) THEN this.id ELSE Null,
      grabbedByNpcId    |-> IF isNpc(this) THEN this.id ELSE Null,
      insideStockpile   |-> Null ]

(***************************************************************************)
(* pickUpItemInternal(itemToPickUp, slots)                                 *)
(***************************************************************************)
IsStackable_Strict(slot, itemToPickUp) ==
    /\ slot.objectType = itemToPickUp.objectType
    /\ slot.amount + itemToPickUp.amount < getMaxStackSize(slot.objectType)

\* slots.find(...): index of the first stackable slot, 0 when there is none
IsStackable(slot, itemToPickUp) ==
    /\ slot.objectType = itemToPickUp.objectType
    /\ slot.amount + itemToPickUp.amount <= getMaxStackSize(slot.objectType)

FindStackableSlot(itemToPickUp, s) ==
    IF \E i \in DOMAIN s : IsStackable(s[i], itemToPickUp)
    THEN CHOOSE i \in DOMAIN s :
            /\ IsStackable(s[i], itemToPickUp)
            /\ \A j \in 1 .. (i - 1) : ~IsStackable(s[j], itemToPickUp)
    ELSE 0

HasEmptySlot_OffByOne(this, s) == Len(s) <= numMaxSlots(this)

\* const emptySlot = slots.length < this.numMaxSlots
HasEmptySlot(this, s) == Len(s) < numMaxSlots(this)

SlotsWithoutItem_ByType(s, item) ==
    LET Other(x) == x.objectType # item.objectType IN SelectSeq(s, Other)

\* slots.filter((slot) => slot.id !== itemToPickUp.id)
SlotsWithoutItem(s, item) == LET Other(x) == x.id # item.id IN SelectSeq(s, Other)

\* ownership written on a picked-up or stacked slot
WithOwnership(this, item) ==
    [ item EXCEPT !.isInInventory     = TRUE,
                  !.grabbedByPersonId = IF isPerson(this) THEN this.id ELSE Null,
                  !.grabbedByNpcId    = IF isNpc(this) THEN this.id ELSE Null ]

\* the result: the error thrown (or none), the new this.slots (unassigned
\* on a throw), and the transaction
pickUpItemInternal(this, itemToPickUp, s) ==
    LET k == FindStackableSlot(itemToPickUp, s)
        slotsWithoutItemToPickup == SlotsWithoutItem(s, itemToPickUp)
    IN  IF k # 0 \/ HasEmptySlot(this, s)
        THEN IF k # 0
             THEN LET stackableSlot == s[k]
                      newStackableSlot ==
                          WithOwnership(this, [ stackableSlot EXCEPT
                              !.amount = stackableSlot.amount + itemToPickUp.amount ])
                  IN  [ error          |-> NoError,
                        slots          |->
                            [ i \in DOMAIN slotsWithoutItemToPickup |->
                                IF slotsWithoutItemToPickup[i].id = stackableSlot.id
                                THEN newStackableSlot
                                ELSE slotsWithoutItemToPickup[i] ],
                        updatedItem    |-> << >>,
                        stackableSlots |-> << newStackableSlot >> ]
             ELSE LET updatedItemToPickUp == WithOwnership(this, itemToPickUp)
                  IN  [ error          |-> NoError,
                        slots          |->
                            Append(slotsWithoutItemToPickup, updatedItemToPickUp),
                        updatedItem    |-> << updatedItemToPickUp >>,
                        stackableSlots |-> << >> ]
        ELSE [ error          |-> NotEnoughRoom,
               slots          |-> s,
               updatedItem    |-> << >>,
               stackableSlots |-> << >> ]

(***************************************************************************)
(* dropItem(itemToDrop)                                                    *)
(***************************************************************************)
itemToDropState_KeepsNpc(itemToDrop) ==
    [ itemToDrop EXCEPT !.isInInventory     = FALSE,
                        !.grabbedByPersonId = Null ]

itemToDropState(itemToDrop) ==
    [ itemToDrop EXCEPT !.isInInventory     = FALSE,
                        !.grabbedByNpcId    = Null,
                        !.grabbedByPersonId = Null ]

(***************************************************************************)
(* internalRemoveCraftingRecipeItem(recipeItem, {copyOfSlots,              *)
(* modifiedSlots}).  copyOfSlots holds fresh objects that the loop changes *)
(* in place; modifiedSlots holds references into it, kept here as the      *)
(* indices of the referenced slots, in push order.                         *)
(***************************************************************************)
RemoveStep_WholeSlot(recipeItem, st, i) ==
    LET slot == st.copyOfSlots[i]
    IN  IF slot.objectType = recipeItem.item
        THEN LET amountToUse == IF st.recipeItemAmountLeft > 0 THEN slot.amount ELSE 0
             IN  [ copyOfSlots |->
                       [ st.copyOfSlots EXCEPT ![i].amount = slot.amount - amountToUse ],
                   recipeItemAmountLeft |->
                       st.recipeItemAmountLeft - Min(amountToUse, st.recipeItemAmountLeft),
                   modifiedSlots |->
                       IF \E m \in DOMAIN st.modifiedSlots :
                              st.copyOfSlots[st.modifiedSlots[m]].id = slot.id
                       THEN st.modifiedSlots
                       ELSE Append(st.modifiedSlots, i) ]
        ELSE st

\* one iteration of `for (const slot of copyOfSlots)'
RemoveStep(recipeItem, st, i) ==
    LET slot == st.copyOfSlots[i]
    IN  IF slot.objectType = recipeItem.item
        THEN LET amountToUse == Min(slot.amount, st.recipeItemAmountLeft)
             IN  [ copyOfSlots |->
                       [ st.copyOfSlots EXCEPT ![i].amount = slot.amount - amountToUse ],
                   recipeItemAmountLeft |-> st.recipeItemAmountLeft - amountToUse,
                   modifiedSlots |->
                       IF \E m \in DOMAIN st.modifiedSlots :
                              st.copyOfSlots[st.modifiedSlots[m]].id = slot.id
                       THEN st.modifiedSlots
                       ELSE Append(st.modifiedSlots, i) ]
        ELSE st

RECURSIVE RemoveLoop(_, _, _)
RemoveLoop(recipeItem, st, i) ==
    IF i > Len(st.copyOfSlots) THEN st
    ELSE RemoveLoop(recipeItem, RemoveStep(recipeItem, st, i), i + 1)

internalRemoveCraftingRecipeItem(recipeItem, copyOfSlots, modifiedSlots) ==
    LET st == RemoveLoop(recipeItem,
                         [ copyOfSlots          |-> copyOfSlots,
                           recipeItemAmountLeft |-> recipeItem.quantity,
                           modifiedSlots        |-> modifiedSlots ], 1)
    IN  [ error         |-> IF st.recipeItemAmountLeft > 0
                            THEN NotEnoughMaterials ELSE NoError,
          copyOfSlots   |-> st.copyOfSlots,
          modifiedSlots |-> st.modifiedSlots ]

SlotsAfterThrow_Aliased(thisSlots, copyOfSlots) == copyOfSlots

\* this.slots.map((slot) => ({ ...slot })): the loop works on copies, so
\* this.slots keeps its value when the loop throws half way
SlotsAfterThrow(thisSlots, copyOfSlots) == thisSlots

\* copyOfSlots.filter((slot) => slot.amount > 0)
NonEmptySlots(s) == LET Positive(x) == x.amount > 0 IN SelectSeq(s, Positive)

\* copyOfSlots.filter((slot) => slot.amount === 0).map((slot) => slot.id)
DeletedSlotIds(copyOfSlots) ==
    LET Zero(x) == x.amount = 0
        z == SelectSeq(copyOfSlots, Zero)
    IN  [ i \in DOMAIN z |-> z[i].id ]

\* modifiedSlots.filter((slot) => slot.amount > 0)
ModifiedSlotsLeft(copyOfSlots, modifiedSlots) ==
    LET m == [ i \in DOMAIN modifiedSlots |-> copyOfSlots[modifiedSlots[i]] ]
    IN  NonEmptySlots(m)

\* getSlotsAfterCraftingMaterials: one removal per recipe input, all on the
\* same copy; the first removal that throws ends the call
RECURSIVE RemoveAll(_, _, _, _)
RemoveAll(items, i, copyOfSlots, modifiedSlots) ==
    IF i > Len(items)
    THEN [ error |-> NoError, copyOfSlots |-> copyOfSlots,
           modifiedSlots |-> modifiedSlots ]
    ELSE LET r == internalRemoveCraftingRecipeItem(items[i], copyOfSlots, modifiedSlots)
         IN  IF r.error # NoError THEN r
             ELSE RemoveAll(items, i + 1, r.copyOfSlots, r.modifiedSlots)

getSlotsAfterCraftingMaterials(recipe, thisSlots) ==
    LET r == RemoveAll(recipe.items, 1, thisSlots, << >>)
    IN  [ error         |-> r.error,
          copyOfSlots   |-> r.copyOfSlots,
          newSlots      |-> NonEmptySlots(r.copyOfSlots),
          deletedSlots  |-> DeletedSlotIds(r.copyOfSlots),
          modifiedSlots |-> ModifiedSlotsLeft(r.copyOfSlots, r.modifiedSlots) ]

\* craftItem(recipe) in RNG state `craftingState': the error thrown (or none), the
\* new this.slots, the new RNG state and the transaction.  The product is
\* created, and its id drawn, once the materials are known to be there.
craftItem(this, recipe, thisSlots, craftingState) ==
    LET g == getSlotsAfterCraftingMaterials(recipe, thisSlots)
        recipeItem == createItemType(this, recipe.product, craftingState)
        p == pickUpItemInternal(this, recipeItem, g.newSlots)
        Thrown(error, nextState) ==
            [ error          |-> error,
              slots          |-> SlotsAfterThrow(thisSlots, g.copyOfSlots),
              rng            |-> nextState,
              updatedItem    |-> << >>,
              stackableSlots |-> << >>,
              deletedSlots   |-> << >>,
              modifiedSlots  |-> << >> ]
    IN  IF g.error # NoError THEN Thrown(g.error, craftingState)
        ELSE IF p.error # NoError THEN Thrown(p.error, craftingState + 1)
        ELSE [ error          |-> NoError,
               slots          |-> p.slots,
               rng            |-> craftingState + 1,
               updatedItem    |-> p.updatedItem,
               stackableSlots |-> p.stackableSlots,
               deletedSlots   |-> g.deletedSlots,
               modifiedSlots  |-> g.modifiedSlots ]

(***************************************************************************)
(* The public operations.  Every action records the slots the call started *)
(* from and the transaction it returned or the error it threw.             *)
(***************************************************************************)
\* one more call is made on the controller
Call ==
    /\ calls < MaxCalls /\ calls' = calls + 1
    /\ UNCHANGED << cellVars, resourceVars, constructionVars, pathVars >>

Returned(op, item, recipe, error, updatedItem, stackableSlots, deletedSlots, modifiedSlots) ==
    [ op             |-> op,
      item           |-> item,
      recipe         |-> recipe,
      error          |-> error,
      updatedItem    |-> updatedItem,
      stackableSlots |-> stackableSlots,
      deletedSlots   |-> deletedSlots,
      modifiedSlots  |-> modifiedSlots ]

\* persons and NPCs carry a one-row inventory: rows: 1, columns: 10
Holders ==
    { [ id |-> IF kind = "npc" THEN "npc0" ELSE "id", kind |-> kind,
        rows |-> 1, columns |-> c ] :
      kind \in {"person", "npc"}, c \in 1 .. MaxColumns }

NoEvents == [ id \in {} |-> << >> ]

\* the state a controller has before it is run
NoCellState ==
    [ npcs                     |-> << >>,
      resources                |-> << >>,
      spawns                   |-> << >>,
      resourceEvents           |-> NoEvents,
      networkObjectEvents      |-> NoEvents,
      npcInventoryEvents       |-> NoEvents,
      stockpiles               |-> << >>,
      stockpileInventoryEvents |-> NoEvents ]

\* no resource is harvested
NoHarvest == << >>

\* nothing is built
NoBuilding == << >>

\* no NPC was handed to applyPathToNpc
NoWalk == << >>

\* new InventoryController(inventoryHolder), the holder's inventory empty;
\* no cell is run
Init ==
    /\ harvest = NoHarvest
    /\ building = NoBuilding
    /\ walk = NoWalk
    /\ currentMilliseconds = MaxMilliseconds
    /\ state = NoCellState
    /\ objects = << >>
    /\ thrown = NoError
    /\ cellLock = << >>
    /\ calls = 0
    /\ holder \in Holders
    /\ slots = << >>
    /\ rng = 0
    /\ before = << >>
    /\ ret = Returned("new", << >>, << >>, NoError, << >>, << >>, << >>, << >>)

\* pickUpItem(itemToPickUp)
PickUpItem(itemToPickUp) ==
    LET r == pickUpItemInternal(holder, itemToPickUp, slots)
    IN  /\ Call
        /\ slots' = IF r.error = NoError THEN r.slots ELSE slots
        /\ before' = slots
        /\ ret' = Returned("pickUpItem", << itemToPickUp >>, << >>, r.error,
                           r.updatedItem, r.stackableSlots, << >>, << >>)
        /\ UNCHANGED << holder, rng >>

\* dropItem(itemToDrop)
DropItem(itemToDrop) ==
    /\ Call
    /\ slots' = SlotsWithoutItem(slots, itemToDrop)
    /\ before' = slots
    /\ ret' = Returned("dropItem", << itemToDrop >>, << >>, NoError,
                       << itemToDropState(itemToDrop) >>, << >>, << >>, << >>)
    /\ UNCHANGED << holder, rng >>

\* removeCraftingRecipeItem(recipeItem)
RemoveCraftingRecipeItem(recipeItem) ==
    LET r == internalRemoveCraftingRecipeItem(recipeItem, slots, << >>)
    IN  /\ Call
        /\ slots' = IF r.error = NoError
                    THEN NonEmptySlots(r.copyOfSlots)
                    ELSE SlotsAfterThrow(slots, r.copyOfSlots)
        /\ before' = slots
        /\ ret' = IF r.error = NoError
                  THEN Returned("removeCraftingRecipeItem", << >>, << recipeItem >>,
                                NoError, << >>, << >>,
                                DeletedSlotIds(r.copyOfSlots),
                                ModifiedSlotsLeft(r.copyOfSlots, r.modifiedSlots))
                  ELSE Returned("removeCraftingRecipeItem", << >>, << recipeItem >>,
                                r.error, << >>, << >>, << >>, << >>)
        /\ UNCHANGED << holder, rng >>

\* craftItem(recipe): remove the materials from a copy, create the product
\* (one RNG draw), pick the product up into the remaining slots
CraftItem(recipe) ==
    LET c == craftItem(holder, recipe, slots, rng)
    IN  /\ Call
        /\ rng < MaxRngDraws
        /\ before' = slots
        /\ UNCHANGED holder
        /\ slots' = c.slots
        /\ rng' = c.rng
        /\ ret' = Returned("craftItem", << >>, << recipe >>, c.error,
                           c.updatedItem, c.stackableSlots,
                           c.deletedSlots, c.modifiedSlots)

\* the items a caller hands to dropItem: a slot of the inventory, or the
\* item it handed to the previous call
Droppable == { slots[i] : i \in DOMAIN slots } \cup { ret.item[i] : i \in DOMAIN ret.item }

Next ==
    \/ \E item \in GroundItems : PickUpItem(item)
    \/ \E item \in Droppable : DropItem(item)
    \/ \E recipeItem \in RecipeItems : RemoveCraftingRecipeItem(recipeItem)
    \/ \E recipe \in Recipes : CraftItem(recipe)

Spec == Init /\ [][Next]_vars

(***************************************************************************)
(* Part 2: CellController (src/src/npc.ts), the planner that runs the NPCs *)
(* of one cell for maxMilliseconds.  startTime is time 0 and every time is *)
(* a number of milliseconds after it.  `cell' stands for the controller:   *)
(* its state, its currentMilliseconds and the error that ended the run.    *)
(***************************************************************************)
WAIT_TIME_AFTER_WALKING == 2000

WAIT_TIME_AFTER_PICK_UP == 2000

Abs(n) == IF n < 0 THEN 0 - n ELSE n

\* { ...a, ...b }
Spread(a, b) ==
    [ f \in (DOMAIN a) \cup (DOMAIN b) |-> IF f \in DOMAIN b THEN b[f] ELSE a[f] ]

\* Array.prototype.sort with a numeric comparator: ascending keys, equal
\* keys keep their order
RECURSIVE SortedOrder(_, _)
SortedOrder(keys, todo) ==
    IF todo = {} THEN << >>
    ELSE LET i == CHOOSE k \in todo :
                      \A j \in todo : keys[k] < keys[j] \/ (keys[k] = keys[j] /\ k <= j)
         IN  << i >> \o SortedOrder(keys, todo \ {i})

SortBy(s, keys) ==
    LET o == SortedOrder(keys, DOMAIN s) IN [ k \in DOMAIN s |-> s[o[k]] ]

\* Array.prototype.findIndex, 0 when no element is found
\* `found' tells of each element if the predicate holds of it
FindIndex(found) ==
    IF \E i \in DOMAIN found : found[i]
    THEN CHOOSE i \in DOMAIN found : found[i] /\ \A j \in 1 .. (i - 1) : ~found[j]
    ELSE 0


\* events[id].push(event), the list created on the first event of an id
PushEvent(events, id, event) ==
    IF id \in DOMAIN events
    THEN [ events EXCEPT ![id] = Append(@, event) ]
    ELSE events @@ (id :> << event >>)

\* new InventoryController(inventoryHolder): an NPC is a holder with a path
InventoryController(inventoryHolder) ==
    [ id      |-> inventoryHolder.id,
      kind    |-> IF "path" \in DOMAIN inventoryHolder THEN "npc" ELSE "person",
      rows    |-> inventoryHolder.inventory.rows,
      columns |-> inventoryHolder.inventory.columns ]

\* applyOneInventoryState(npc, inventoryState): all = true
applyOneInventoryState(acc, inventoryState) ==
    LET Kept(slot) ==
            /\ \A i \in DOMAIN inventoryState.remove : inventoryState.remove[i] # slot.id
            /\ \A i \in DOMAIN inventoryState.add : inventoryState.add[i].id # slot.id
        kept == SelectSeq(acc.inventory.slots, Kept)
        Modified(slot) ==
            LET Matching(o) == o.id = slot.id
                m == FindIndex([ n \in DOMAIN inventoryState.modified |-> Matching(inventoryState.modified[n]) ])
            IN  IF m # 0 THEN inventoryState.modified[m] ELSE slot
    IN  [ acc EXCEPT !.inventory.slots =
              [ i \in DOMAIN kept |-> Modified(kept[i]) ] \o inventoryState.add ]

\* sortEvents: state.npcs sorted by readyTime
sortEvents(cell) ==
    LET npcs == cell.state.npcs
    IN  [ cell EXCEPT !.state.npcs = SortBy(npcs, [ i \in DOMAIN npcs |-> npcs[i].readyTime ]) ]

hasInventorySpace(inventoryHolder) ==
    Len(inventoryHolder.inventory.slots)
        < inventoryHolder.inventory.rows * inventoryHolder.inventory.columns

hasRecipeItems(recipe, amount, inventoryHolder) ==
    \A i \in DOMAIN recipe.items :
        TotalOfType(inventoryHolder.inventory.slots, recipe.items[i].item)
            > recipe.items[i].quantity * amount

hasItemInInventory(npc) == Len(npc.inventory.slots) > 0

isNpcReady(cell, npc) == cell.currentMilliseconds >= npc.readyTime

\* a planner that takes every resource for ready
isResourceReady_Always(cell, resource) == TRUE

isResourceReady(cell, resource) ==
    ~resource.depleted \/ cell.currentMilliseconds >= resource.readyTime

\* getFirstEventIndex: the first ready NPC of state.npcs, 0 when none is
getFirstEventIndex(cell) ==
    LET Ready(npcEvent) == isNpcReady(cell, npcEvent.data)
    IN  FindIndex([ n \in DOMAIN cell.state.npcs |-> Ready(cell.state.npcs[n]) ])

distance(a, b) == Abs(b.x - a.x) + Abs(b.y - a.y)

\* s.sort(CellController.byDistance.bind(this, npc))
byDistance(npc, s) == SortBy(s, [ i \in DOMAIN s |-> distance(npc, s[i]) ])

\* getNextResourceIndex: sorts state.resources, then finds the first ready one
getNextResourceIndex(cell, npc) ==
    LET sorted == [ cell EXCEPT !.state.resources = byDistance(npc, @) ]
        Ready(resource) == isResourceReady(cell, resource)
    IN  [ cell |-> sorted, index |-> FindIndex([ n \in DOMAIN sorted.state.resources |-> Ready(sorted.state.resources[n]) ]) ]

\* generatePathToResource: the y leg, then the x leg, 10 ms a pixel
generatePathToResource(cell, npc, resource) ==
    LET now == cell.currentMilliseconds
        yDelta == resource.y - npc.y
        yDistance == Abs(yDelta)
        xDelta == resource.x - npc.x
        xDistance == Abs(xDelta)
        initialPoint == [ time |-> now, location |-> [ x |-> npc.x, y |-> npc.y ] ]
        yTime == IF yDistance > 0 THEN yDistance * 10 ELSE 0
        yChangePoint ==
            [ time |-> now + yTime, location |-> [ x |-> npc.x, y |-> npc.y + yDelta ] ]
        xTime == IF xDistance > 0 THEN xDistance * 10 ELSE 0
        xChangePoint ==
            [ time     |-> now + yTime + xTime,
              location |-> [ x |-> npc.x + xDelta, y |-> npc.y + yDelta ] ]
    IN  [ duration |-> yTime + xTime,
          path     |-> << initialPoint >>
                       \o (IF yDistance > 0 THEN << yChangePoint >> ELSE << >>)
                       \o (IF xDistance > 0 THEN << xChangePoint >> ELSE << >>) ]

\* an NPC that is ready as soon as it has walked and waited once
walkNpcTowardsLocation_NoPickUpWait(cell, firstEventIndex, location) ==
    LET npcEvent == cell.state.npcs[firstEventIndex]
        w == generatePathToResource(cell, npcEvent.data, location)
        npcReadyTime == cell.currentMilliseconds + w.duration
                            + WAIT_TIME_AFTER_WALKING
        last == w.path[Len(w.path)].location
        walked == [ readyTime |-> npcReadyTime,
                    data      |-> [ npcEvent.data EXCEPT
                                        !.path = @ \o w.path,
                                        !.x = last.x,
                                        !.y = last.y,
                                        !.readyTime = npcReadyTime ] ]
    IN  [ duration     |-> w.duration,
          npcReadyTime |-> npcReadyTime,
          cell         |-> [ cell EXCEPT !.state.npcs[firstEventIndex] = walked ] ]

\* walkNpcTowardsLocation: the NPC is at the location, and ready, once it
\* has walked and waited
walkNpcTowardsLocation(cell, firstEventIndex, location) ==
    LET npcEvent == cell.state.npcs[firstEventIndex]
        w == generatePathToResource(cell, npcEvent.data, location)
        npcReadyTime == cell.currentMilliseconds + w.duration
                            + WAIT_TIME_AFTER_WALKING + WAIT_TIME_AFTER_PICK_UP
        last == w.path[Len(w.path)].location
        walked == [ readyTime |-> npcReadyTime,
                    data      |-> [ npcEvent.data EXCEPT
                                        !.path = @ \o w.path,
                                        !.x = last.x,
                                        !.y = last.y,
                                        !.readyTime = npcReadyTime ] ]
    IN  [ duration     |-> w.duration,
          npcReadyTime |-> npcReadyTime,
          cell         |-> [ cell EXCEPT !.state.npcs[firstEventIndex] = walked ] ]

\* an INetworkObjectEvent
NetworkObjectEvent(objectId, time, patch) ==
    [ objectId |-> objectId, time |-> time,
      state    |-> [ time |-> time, state |-> patch ] ]

addNetworkObjectEvent(cell, event) ==
    [ cell EXCEPT !.state.networkObjectEvents = PushEvent(@, event.objectId, event) ]

RECURSIVE addNetworkObjectEvents(_, _)
addNetworkObjectEvents(cell, events) ==
    IF events = << >> THEN cell
    ELSE addNetworkObjectEvents(addNetworkObjectEvent(cell, Head(events)), Tail(events))

addNpcInventoryEvent(cell, event) ==
    [ cell EXCEPT !.state.npcInventoryEvents = PushEvent(@, event.npcId, event) ]

addStockpileInventoryEvent(cell, event) ==
    [ cell EXCEPT !.state.stockpileInventoryEvents = PushEvent(@, event.stockpileId, event) ]

addResourceEvent(cell, event) ==
    [ cell EXCEPT !.state.resourceEvents = PushEvent(@, event.resourceId, event) ]

\* an IInventoryState
InventoryState(time, add, modified, remove) ==
    [ time |-> time, add |-> add, modified |-> modified, remove |-> remove ]

\* the NPC takes an inventory event: appended to its inventoryState and
\* applied to its inventory
npcTakesInventoryState(cell, firstEventIndex, inventoryState) ==
    [ cell EXCEPT !.state.npcs[firstEventIndex].data =
          applyOneInventoryState(
              [ @ EXCEPT !.inventoryState = Append(@, inventoryState) ], inventoryState) ]

\* spawnItem(spawn, time): the item does not exist until `time'
spawnItem(cell, spawn, time) ==
    LET spawnedItemEvent == NetworkObjectEvent(spawn.id, time, [ exist |-> TRUE ])
        spawnEvent ==
            [ time  |-> time,
              spawn |-> Spread(spawn, [ exist |-> FALSE,
                                        state |-> << spawnedItemEvent.state >> ]) ]
    IN  [ spawnEvent |-> spawnEvent,
          cell       |-> addNetworkObjectEvent(
                             [ cell EXCEPT !.state.spawns = Append(@, spawnEvent) ],
                             spawnedItemEvent) ]

(***************************************************************************)
(* HarvestResourceController (src/src/resources.ts).  The spawn picked and *)
(* the respawn delay are drawn from the resource's RNG: the draws are the  *)
(* inputs `k' (the spawn picked) and `q' (rng.quick(), in halves).         *)
(***************************************************************************)
\* the spawns of a tree (resourceSpawnData, src/src/terrain.ts)
TreeSpawns ==
    << [ type |-> "STICK", probability |-> 95, spawnTime |-> 120000 ],
       [ type |-> "WOOD", probability |-> 5, spawnTime |-> 300000 ] >>

\* the values of rng.quick() for the respawn delay, in halves.  Whatever is
\* drawn a harvested resource is ready spawnTime / 2 = 60000 ms later at the
\* earliest, after the end of a run of MaxMilliseconds: the draw is recorded
\* in the resource and in its events, and no decision of a run reads it
RngQuick == {1}

\* controller.spawn(): the item dropped next to the resource and the delay
\* Math.ceil(rng.quick() * spawnTime + spawnTime * 0.5)
spawn(resource, k, q) ==
    [ spawn |->
          [ id                |-> << "object", resource.id, resource.spawnState >>,
            objectType        |-> resource.spawns[k].type,
            grabbedByPersonId |-> Null,
            grabbedByNpcId    |-> Null,
            insideStockpile   |-> Null,
            isInInventory     |-> FALSE,
            amount            |-> 1,
            exist             |-> TRUE,
            state             |-> << >> ],
      respawnTime |-> (q * resource.spawns[k].spawnTime) \div 2
                          + resource.spawns[k].spawnTime \div 2 ]

\* controller.saveState(): the RNG state after the draws of one spawn
saveState(resource) == resource.spawnState + 1

(***************************************************************************)
(* collectResources: walk to the nearest ready resource, harvest it, pick  *)
(* the spawned item up.  A value the code computes once and then reads     *)
(* several times is bound once: The({ e : x \in { v } }) is e with x = v.  *)
(***************************************************************************)
The(s) == CHOOSE x \in s : TRUE

\* the end of collectResources: the NPC picks the spawned item up.  The
\* record pushed by spawnItem is the last of state.spawns
pickUpSpawn(cell, firstEventIndex, spawnedItem, pickUpTime) ==
    LET npc == cell.state.npcs[firstEventIndex].data
    IN  The({
            LET pickUpEvent ==
                    NetworkObjectEvent(spawnedItem.id, pickUpTime,
                                       [ isInInventory |-> TRUE, grabbedByNpcId |-> npc.id ])
                mergeItemEvents ==
                    [ i \in DOMAIN p.stackableSlots |->
                          NetworkObjectEvent(p.stackableSlots[i].id, pickUpTime,
                                             p.stackableSlots[i]) ]
                destroyState == [ time |-> pickUpTime, state |-> [ exist |-> FALSE ] ]
                pickedUp ==
                    IF p.updatedItem # << >>
                    THEN [ addNetworkObjectEvent(cell, pickUpEvent) EXCEPT
                               !.state.spawns[Len(cell.state.spawns)].spawn.state =
                                   Append(@, pickUpEvent.state) ]
                    ELSE [ addNetworkObjectEvents(cell, mergeItemEvents) EXCEPT
                               !.state.spawns[Len(cell.state.spawns)].spawn.state =
                                   Append(@, destroyState) ]
                npcInventoryEvent ==
                    [ npcId |-> npc.id, time |-> pickUpTime,
                      state |-> InventoryState(pickUpTime, p.updatedItem,
                                               p.stackableSlots, << >>) ]
            IN  IF p.error # NoError
                THEN [ cell EXCEPT !.thrown = p.error ]
                ELSE npcTakesInventoryState(
                         addNpcInventoryEvent(pickedUp, npcInventoryEvent),
                         firstEventIndex, npcInventoryEvent.state)
            : p \in { pickUpItemInternal(InventoryController(npc), spawnedItem,
                                         npc.inventory.slots) } })

\* the middle of collectResources: the resource is harvested when the NPC
\* has walked to it, and the item it spawns exists from then on
harvestResource(cell, firstEventIndex, resourceIndex, k, q) ==
    LET nextResource == cell.state.resources[resourceIndex]
        h == spawn(nextResource, k, q)
    IN  The({
            LET harvestedTime ==
                    cell.currentMilliseconds + w.duration + WAIT_TIME_AFTER_WALKING
                respawnedTime == harvestedTime + h.respawnTime
                pickUpTime == harvestedTime + WAIT_TIME_AFTER_PICK_UP
                harvestedState == [ spawnState |-> saveState(nextResource),
                                    depleted   |-> TRUE,
                                    readyTime  |-> respawnedTime ]
                respawnedState == [ depleted |-> FALSE ]
                harvested ==
                    [ w.cell EXCEPT !.state.resources[resourceIndex] =
                          [ nextResource EXCEPT
                                !.spawnState = harvestedState.spawnState,
                                !.depleted   = harvestedState.depleted,
                                !.readyTime  = harvestedState.readyTime ] ]
                harvestedEvent == [ resourceId |-> nextResource.id,
                                    state |-> harvestedState, time |-> harvestedTime ]
                respawnEvent == [ resourceId |-> nextResource.id,
                                  state |-> respawnedState, time |-> respawnedTime ]
            IN  The({ The({ pickUpSpawn(spawned, firstEventIndex,
                                        s.spawnEvent.spawn, pickUpTime)
                            : spawned \in { addResourceEvent(
                                                addResourceEvent(s.cell, harvestedEvent),
                                                respawnEvent) } })
                      : s \in { spawnItem(harvested, h.spawn, harvestedTime) } })
            : w \in { walkNpcTowardsLocation(cell, firstEventIndex, nextResource) } })

collectResources(cell, firstEventIndex, k, q) ==
    The({ IF n.index = 0
          THEN [ n.cell EXCEPT !.currentMilliseconds = @ + 1000 ]
          ELSE harvestResource(n.cell, firstEventIndex, n.index, k, q)
          : n \in { getNextResourceIndex(cell, cell.state.npcs[firstEventIndex].data) } })

(***************************************************************************)
(* The stockpile operations of InventoryController.  storeInStockpile and  *)
(* withdrawFromStockpile of CellController call them, and                  *)
(* src/src/inventory.ts does not have them: they are written from the      *)
(* specification, which has them "symmetric to drop/pickup" but clearing   *)
(* and setting insideStockpile instead of the grabbed-by fields.           *)
(***************************************************************************)
InsideStockpile(this, item) ==
    Spread(item, [ isInInventory |-> TRUE, insideStockpile |-> this.id ])

insertIntoStockpile(this, itemToInsert, s) ==
    LET k == FindStackableSlot(itemToInsert, s)
        slotsWithoutItem == SlotsWithoutItem(s, itemToInsert)
    IN  IF k # 0 \/ HasEmptySlot(this, s)
        THEN IF k # 0
             THEN LET newStackableSlot ==
                          InsideStockpile(this,
                              [ s[k] EXCEPT !.amount = s[k].amount + itemToInsert.amount ])
                  IN  [ error          |-> NoError,
                        slots          |->
                            [ i \in DOMAIN slotsWithoutItem |->
                                IF slotsWithoutItem[i].id = s[k].id
                                THEN newStackableSlot
                                ELSE slotsWithoutItem[i] ],
                        updatedItem    |-> << >>,
                        stackableSlots |-> << newStackableSlot >> ]
             ELSE [ error          |-> NoError,
                    slots          |-> Append(slotsWithoutItem,
                                              InsideStockpile(this, itemToInsert)),
                    updatedItem    |-> << InsideStockpile(this, itemToInsert) >>,
                    stackableSlots |-> << >> ]
        ELSE [ error          |-> NotEnoughRoom,
               slots          |-> s,
               updatedItem    |-> << >>,
               stackableSlots |-> << >> ]

\* withdrawFromStockpile(slot, amount) of InventoryController
withdrawItem(this, slotToWithdraw, amountToWithdraw, s) ==
    [ slots       |-> SlotsWithoutItem(s, slotToWithdraw),
      updatedItem |-> << Spread(slotToWithdraw,
                                [ amount          |-> amountToWithdraw,
                                  isInInventory   |-> FALSE,
                                  insideStockpile |-> Null ]) >> ]

(***************************************************************************)
(* storeInStockpile: walk to the stockpile, then drop and insert the slots *)
(* of the NPC one by one, until the stockpile is full.                     *)
(***************************************************************************)
\* one iteration of `for (const item of npcEvent.data.inventory.slots)'
storeItem(cell, firstEventIndex, stockpileIndex, npcReadyTime, item) ==
    LET stockpile == cell.state.stockpiles[stockpileIndex]
        npc == cell.state.npcs[firstEventIndex].data
        npcItem == itemToDropState(item)
        dropItemEvent ==
            NetworkObjectEvent(npcItem.id, npcReadyTime,
                               [ grabbedByNpcId |-> Null, isInInventory |-> FALSE ])
        npcDropItemEvent ==
            [ npcId |-> npc.id, time |-> npcReadyTime,
              state |-> InventoryState(npcReadyTime, << >>, << >>, << npcItem.id >>) ]
        dropped ==
            npcTakesInventoryState(
                addNpcInventoryEvent(addNetworkObjectEvent(cell, dropItemEvent),
                                     npcDropItemEvent),
                firstEventIndex, npcDropItemEvent.state)
    IN  The({
            LET stockpileEvent ==
                    [ stockpileId |-> stockpile.id, time |-> npcReadyTime,
                      state |-> InventoryState(npcReadyTime, t.updatedItem,
                                               t.stackableSlots, << >>) ]
                inserted ==
                    [ addStockpileInventoryEvent(dropped, stockpileEvent) EXCEPT
                          !.state.stockpiles[stockpileIndex] =
                              applyOneInventoryState(
                                  [ stockpile EXCEPT
                                        !.inventoryState = Append(@, stockpileEvent.state) ],
                                  stockpileEvent.state) ]
                moveToStockpileEvent ==
                    NetworkObjectEvent(npcItem.id, npcReadyTime,
                                       [ isInInventory   |-> TRUE,
                                         insideStockpile |-> stockpile.id ])
                destroyOriginalItem ==
                    NetworkObjectEvent(npcItem.id, npcReadyTime, [ exist |-> FALSE ])
                modifyStackedItems ==
                    [ i \in DOMAIN t.stackableSlots |->
                          NetworkObjectEvent(t.stackableSlots[i].id, npcReadyTime,
                                             [ amount |-> t.stackableSlots[i].amount ]) ]
            IN  IF t.error # NoError
                THEN [ dropped EXCEPT !.thrown = t.error ]
                ELSE IF t.updatedItem # << >>
                THEN addNetworkObjectEvent(inserted, moveToStockpileEvent)
                ELSE addNetworkObjectEvents(inserted,
                                            << destroyOriginalItem >> \o modifyStackedItems)
            : t \in { insertIntoStockpile(InventoryController(stockpile), npcItem,
                                          stockpile.inventory.slots) } })

RECURSIVE storeItems(_, _, _, _, _)
storeItems(cell, firstEventIndex, stockpileIndex, npcReadyTime, items) ==
    LET stockpile == cell.state.stockpiles[stockpileIndex]
    IN  IF items = << >> \/ cell.thrown # NoError THEN cell
        ELSE IF Len(stockpile.inventory.slots)
                    >= stockpile.inventory.rows * stockpile.inventory.columns
        THEN cell
        ELSE The({ storeItems(stored, firstEventIndex, stockpileIndex,
                              npcReadyTime, Tail(items))
                   : stored \in { storeItem(cell, firstEventIndex, stockpileIndex,
                                            npcReadyTime, Head(items)) } })

storeInStockpile(cell, firstEventIndex, stockpileIndex) ==
    The({ storeItems(w.cell, firstEventIndex, stockpileIndex, w.npcReadyTime,
                     w.cell.state.npcs[firstEventIndex].data.inventory.slots)
          : w \in { walkNpcTowardsLocation(cell, firstEventIndex,
                                           cell.state.stockpiles[stockpileIndex]) } })

(***************************************************************************)
(* withdrawFromStockpile of CellController: walk to the stockpile, then    *)
(* withdraw the inputs of amountRecipes recipes, a stack at a time.        *)
(***************************************************************************)
\* the amounts of the withdraws that make `left' up, none above a stack
RECURSIVE withdrawAmounts(_, _)
withdrawAmounts(left, objectType) ==
    IF left <= 0 THEN << >>
    ELSE LET withdrawAmount == Min(left, getMaxStackSize(objectType))
         IN  << withdrawAmount >> \o withdrawAmounts(left - withdrawAmount, objectType)

\* the slots one withdraw takes from, with the amount taken from each
RECURSIVE slotAmountPairs(_, _, _, _)
slotAmountPairs(stockpileSlots, objectType, withdrawAmount, acc) ==
    IF stockpileSlots = << >> THEN acc
    ELSE LET slot == Head(stockpileSlots)
             amountLeft == withdrawAmount - SumAmounts(acc)
             amountToWithdrawForSlot == Min(slot.amount, amountLeft)
         IN  slotAmountPairs(Tail(stockpileSlots), objectType, withdrawAmount,
                 IF slot.objectType = objectType /\ amountToWithdrawForSlot > 0
                 THEN Append(acc, [ amount |-> amountToWithdrawForSlot, slot |-> slot ])
                 ELSE acc)

\* the pairs of all the withdraws of one recipe item: each withdraw reads
\* the slots the stockpile had when the recipe item was started
RECURSIVE allSlotAmountPairs(_, _, _)
allSlotAmountPairs(stockpileSlots, objectType, amounts) ==
    IF amounts = << >> THEN << >>
    ELSE slotAmountPairs(stockpileSlots, objectType, Head(amounts), << >>)
             \o allSlotAmountPairs(stockpileSlots, objectType, Tail(amounts))

\* one iteration of `for (const slotAmountPair of slotAmountPairs)'.  c is
\* the cell and the slots of the two controllers of this recipe item
withdrawPair(c, firstEventIndex, stockpileIndex, stockpile, npcReadyTime, pair) ==
    LET npc == c.cell.state.npcs[firstEventIndex].data
    IN  The({ The({
            LET withdrawnItem == t.updatedItem[1]
                stockpileEvent ==
                    [ stockpileId |-> stockpile.id, time |-> npcReadyTime,
                      state |-> InventoryState(npcReadyTime, << >>, << >>,
                                               << withdrawnItem.id >>) ]
                withdrawn ==
                    [ addStockpileInventoryEvent(c.cell, stockpileEvent) EXCEPT
                          !.state.stockpiles[stockpileIndex] =
                              applyOneInventoryState(
                                  [ stockpile EXCEPT
                                        !.inventoryState = Append(@, stockpileEvent.state) ],
                                  stockpileEvent.state) ]
                withdrawnFromStockpileEvent ==
                    NetworkObjectEvent(withdrawnItem.id, npcReadyTime,
                                       [ isInInventory |-> FALSE, insideStockpile |-> Null ])
                pickUpItemEvent ==
                    NetworkObjectEvent(withdrawnItem.id, npcReadyTime,
                                       [ grabbedByNpcId |-> npc.id, isInInventory |-> TRUE ])
                npcPickUpItemEvent ==
                    [ npcId |-> npc.id, time |-> npcReadyTime,
                      state |-> InventoryState(npcReadyTime, p.updatedItem,
                                               p.stackableSlots, << >>) ]
                left == addNetworkObjectEvent(withdrawn, withdrawnFromStockpileEvent)
            IN  IF p.error # NoError
                THEN [ c EXCEPT !.cell = [ left EXCEPT !.thrown = p.error ],
                                !.stockpileSlots = t.slots ]
                ELSE [ cell |-> npcTakesInventoryState(
                                    addNpcInventoryEvent(
                                        addNetworkObjectEvent(left, pickUpItemEvent),
                                        npcPickUpItemEvent),
                                    firstEventIndex, npcPickUpItemEvent.state),
                       stockpileSlots |-> t.slots,
                       npcSlots       |-> p.slots ]
            : p \in { pickUpItemInternal(InventoryController(npc), t.updatedItem[1],
                                         c.npcSlots) } })
            : t \in { withdrawItem(InventoryController(stockpile), pair.slot,
                                   pair.amount, c.stockpileSlots) } })

RECURSIVE withdrawPairs(_, _, _, _, _, _)
withdrawPairs(c, firstEventIndex, stockpileIndex, stockpile, npcReadyTime, pairs) ==
    IF pairs = << >> \/ c.cell.thrown # NoError THEN c
    ELSE The({ withdrawPairs(withdrawn, firstEventIndex, stockpileIndex, stockpile,
                             npcReadyTime, Tail(pairs))
               : withdrawn \in { withdrawPair(c, firstEventIndex, stockpileIndex,
                                              stockpile, npcReadyTime, Head(pairs)) } })

\* `for (const recipeItem of recipe.items)': the stockpile is read, and the
\* two controllers are made, once for each recipe item
RECURSIVE withdrawRecipeItems(_, _, _, _, _, _)
withdrawRecipeItems(cell, firstEventIndex, stockpileIndex, npcReadyTime, recipeItems, amountRecipes) ==
    IF recipeItems = << >> \/ cell.thrown # NoError THEN cell
    ELSE LET recipeItem == Head(recipeItems)
             stockpile == cell.state.stockpiles[stockpileIndex]
             amounts == withdrawAmounts(recipeItem.quantity * amountRecipes,
                                        recipeItem.item)
         IN  The({ The({ withdrawRecipeItems(c.cell, firstEventIndex, stockpileIndex,
                                             npcReadyTime, Tail(recipeItems),
                                             amountRecipes)
                         : c \in { withdrawPairs(
                                       [ cell           |-> cell,
                                         stockpileSlots |-> stockpile.inventory.slots,
                                         npcSlots       |->
                                             cell.state.npcs[firstEventIndex]
                                                 .data.inventory.slots ],
                                       firstEventIndex, stockpileIndex, stockpile,
                                       npcReadyTime, pairs) } })
                   : pairs \in { allSlotAmountPairs(stockpile.inventory.slots,
                                                    recipeItem.item, amounts) } })

withdrawFromStockpile(cell, firstEventIndex, stockpileIndex, recipe, amountRecipes) ==
    The({ withdrawRecipeItems(w.cell, firstEventIndex, stockpileIndex,
                              w.npcReadyTime, recipe.items, amountRecipes)
          : w \in { walkNpcTowardsLocation(cell, firstEventIndex,
                                           cell.state.stockpiles[stockpileIndex]) } })

(***************************************************************************)
(* The jobs.                                                               *)
(***************************************************************************)
\* the names of the NPCs and of the resources of a cell, by index
NpcNames == << "npc0", "npc1", "npc2", "npc3" >>

ResourceNames == << "resource0", "resource1", "resource2", "resource3" >>

\* this.houses: the house of NPC `index' is at x = index * 100
houses ==
    [ id \in { NpcNames[i] : i \in DOMAIN NpcNames } |->
        [ npcId |-> id,
          x     |-> 100 * ((CHOOSE i \in DOMAIN NpcNames : NpcNames[i] = id) - 1),
          y     |-> 0 ] ]

\* an NPC that goes to the house of the first NPC
npcGoHome_FirstHouse(cell, firstEventIndex) ==
    walkNpcTowardsLocation(cell, firstEventIndex, houses[NpcNames[1]])

\* npcGoHome: walk to the house of the NPC
npcGoHome(cell, firstEventIndex) ==
    walkNpcTowardsLocation(cell, firstEventIndex,
                           houses[cell.state.npcs[firstEventIndex].data.id])

\* findAndStoreInStockpile: the nearest stockpile with a free slot
findAndStoreInStockpile(cell, firstEventIndex) ==
    LET npc == cell.state.npcs[firstEventIndex].data
    IN  The({
            LET stockpileIndex ==
                    FindIndex([ n \in DOMAIN sorted.state.stockpiles |->
                                  hasInventorySpace(sorted.state.stockpiles[n]) ])
            IN  IF stockpileIndex # 0
                THEN [ foundStockpile |-> TRUE,
                       cell |-> storeInStockpile(sorted, firstEventIndex, stockpileIndex) ]
                ELSE [ foundStockpile |-> FALSE, cell |-> sorted ]
            : sorted \in { [ cell EXCEPT !.state.stockpiles = byDistance(npc, @) ] } })

\* findAndWithdrawFromStockpile: the nearest stockpile that has the inputs
findAndWithdrawFromStockpile(cell, firstEventIndex, recipe, amountRecipes) ==
    LET npc == cell.state.npcs[firstEventIndex].data
    IN  The({
            LET stockpileIndex ==
                    FindIndex([ n \in DOMAIN sorted.state.stockpiles |->
                                  hasRecipeItems(recipe, amountRecipes,
                                                 sorted.state.stockpiles[n]) ])
            IN  IF stockpileIndex # 0
                THEN [ foundStockpile |-> TRUE,
                       cell |-> withdrawFromStockpile(sorted, firstEventIndex,
                                                      stockpileIndex, recipe,
                                                      amountRecipes) ]
                ELSE [ foundStockpile |-> FALSE, cell |-> sorted ]
            : sorted \in { [ cell EXCEPT !.state.stockpiles = byDistance(npc, @) ] } })

handleGatherJob(cell, firstEventIndex, k, q) ==
    IF hasInventorySpace(cell.state.npcs[firstEventIndex].data)
    THEN collectResources(cell, firstEventIndex, k, q)
    ELSE The({ IF ~result.foundStockpile
               THEN npcGoHome(result.cell, firstEventIndex).cell
               ELSE result.cell
               : result \in { findAndStoreInStockpile(cell, firstEventIndex) } })

\* one iteration of the loop of craftRecipes
craftRecipe(cell, firstEventIndex, recipe, npcReadyTime) ==
    LET npc == cell.state.npcs[firstEventIndex].data
    IN  The({
            LET spawned == IF t.updatedItem # << >>
                           THEN spawnItem(cell, t.updatedItem[1], npcReadyTime).cell
                           ELSE cell
                changedSlots == t.stackableSlots \o t.modifiedSlots
                amountEvents ==
                    [ i \in DOMAIN changedSlots |->
                          NetworkObjectEvent(changedSlots[i].id, npcReadyTime,
                                             [ amount |-> changedSlots[i].amount ]) ]
                deletionEvents ==
                    [ i \in DOMAIN t.deletedSlots |->
                          NetworkObjectEvent(t.deletedSlots[i], npcReadyTime,
                                             [ exist |-> FALSE ]) ]
                npcInventoryEvent ==
                    [ time |-> npcReadyTime, npcId |-> npc.id,
                      state |-> InventoryState(npcReadyTime, t.updatedItem, changedSlots,
                                               t.deletedSlots) ]
            IN  IF t.error # NoError
                THEN [ cell EXCEPT !.thrown = t.error ]
                ELSE npcTakesInventoryState(
                         addNpcInventoryEvent(
                             addNetworkObjectEvents(spawned, amountEvents \o deletionEvents),
                             npcInventoryEvent),
                         firstEventIndex, npcInventoryEvent.state)
            : t \in { craftItem(InventoryController(npc), recipe, npc.inventory.slots,
                                npc.craftingState) } })

RECURSIVE craftLoop(_, _, _, _, _)
craftLoop(cell, firstEventIndex, recipe, npcReadyTime, left) ==
    IF left <= 0 \/ cell.thrown # NoError THEN cell
    ELSE The({ craftLoop(crafted, firstEventIndex, recipe, npcReadyTime, left - 1)
               : crafted \in { craftRecipe(cell, firstEventIndex, recipe,
                                           npcReadyTime) } })

\* craftRecipes: walk home, craft amountRecipes times
craftRecipes(cell, firstEventIndex, recipe, amountRecipes) ==
    The({ craftLoop(goHomeResult.cell, firstEventIndex, recipe,
                    goHomeResult.npcReadyTime, amountRecipes)
          : goHomeResult \in { npcGoHome(cell, firstEventIndex) } })

\* recipe.amount: the number of products of one craft
recipeAmount(recipe) == 1

RECURSIVE numInputSlotsPerRecipe(_)
numInputSlotsPerRecipe(items) ==
    IF items = << >> THEN 0
    ELSE (Head(items).quantity \div getMaxStackSize(Head(items).item))
             + numInputSlotsPerRecipe(Tail(items))

Max(a, b) == IF a > b THEN a ELSE b

\* a crafting amount that counts the slots of one row only
numRecipes_OneColumn(npc, recipe) ==
    LET numOutputSlotsPerRecipe == recipeAmount(recipe) \div getMaxStackSize(recipe.product)
        slotsPerRecipe == Max(numInputSlotsPerRecipe(recipe.items), numOutputSlotsPerRecipe)
        maxSlots == npc.inventory.rows
    IN  maxSlots \div slotsPerRecipe

\* `determine crafting amount' of handleCraftJob: the number of recipes an
\* NPC withdraws for and crafts in one go
numRecipes(npc, recipe) ==
    LET numOutputSlotsPerRecipe == recipeAmount(recipe) \div getMaxStackSize(recipe.product)
        slotsPerRecipe == Max(numInputSlotsPerRecipe(recipe.items), numOutputSlotsPerRecipe)
        maxSlots == npc.inventory.rows * npc.inventory.columns
    IN  maxSlots \div slotsPerRecipe

\* the part of handleCraftJob that follows the clearing of the inventory;
\* `product' is the product Math.random() picks
craftProduct(cell, firstEventIndex, product) ==
    LET npc == cell.state.npcs[firstEventIndex].data
        recipeIndex == FindIndex([ n \in DOMAIN listOfRecipes |->
                                     listOfRecipes[n].product = product ])
        recipe == listOfRecipes[recipeIndex]
    IN  IF recipeIndex = 0 THEN cell
        ELSE The({ The({ IF ~result.foundStockpile
                         THEN npcGoHome(result.cell, firstEventIndex).cell
                         ELSE IF result.cell.thrown # NoError THEN result.cell
                         ELSE craftRecipes(result.cell, firstEventIndex, recipe, amountRecipes)
                         : result \in { findAndWithdrawFromStockpile(cell, firstEventIndex,
                                                                     recipe, amountRecipes) } })
                   : amountRecipes \in { numRecipes(npc, recipe) } })

handleCraftJob(cell, firstEventIndex, product) ==
    IF hasItemInInventory(cell.state.npcs[firstEventIndex].data)
    THEN The({ IF ~result.foundStockpile
               THEN npcGoHome(result.cell, firstEventIndex).cell
               ELSE IF result.cell.thrown # NoError THEN result.cell
               ELSE craftProduct(result.cell, firstEventIndex, product)
               : result \in { findAndStoreInStockpile(cell, firstEventIndex) } })
    ELSE craftProduct(cell, firstEventIndex, product)

(***************************************************************************)
(* A cell: NPCs that start at the origin with a job, trees on the          *)
(* diagonal, one stockpile at the origin.  The items that start in an      *)
(* inventory are the objects the controller is constructed with.           *)
(***************************************************************************)
\* a crafter may be given a product that has a recipe, together with one that
\* has none, or no product at all
NpcJobs ==
    { [ type |-> "GATHER" ],
      [ type |-> "CRAFT", products |-> << "WATTLE_WALL", "STICK" >> ],
      [ type |-> "CRAFT", products |-> << >> ],
      [ type |-> "HAUL" ] }

\* a STICK item that is in an inventory when the run starts
InitialItem(n, amount, grabbedByNpcId, insideStockpile) ==
    [ id                |-> << "object", "initial", n >>,
      objectType        |-> "STICK",
      grabbedByPersonId |-> Null,
      grabbedByNpcId    |-> grabbedByNpcId,
      insideStockpile   |-> insideStockpile,
      isInInventory     |-> TRUE,
      amount            |-> amount,
      exist             |-> TRUE,
      state             |-> << >> ]

\* what a gatherer may carry when the run starts
CarriedBy(i, job) ==
    IF job.type = "GATHER"
    THEN { << >>, << InitialItem(i, 9, NpcNames[i], Null) >> }
    ELSE { << >> }

InitialNpc(i, job, columns, carried) ==
    [ id             |-> NpcNames[i],
      x              |-> 0,
      y              |-> 0,
      path           |-> << >>,
      readyTime      |-> 0,
      job            |-> job,
      craftingState  |-> 0,
      inventory      |-> [ rows |-> 1, columns |-> columns, slots |-> carried ],
      inventoryState |-> << >> ]

InitialResource(i) ==
    [ id         |-> ResourceNames[i],
      x          |-> 100 * (i - 1),
      y          |-> 100 * (i - 1),
      depleted   |-> FALSE,
      readyTime  |-> 0,
      spawnState |-> 0,
      spawns     |-> TreeSpawns ]

\* the amounts of the STICK slots a stockpile may start with
StockpileAmounts ==
    { a \in { << >>, << 10, 1 >>, << 6, 5 >>, << 10, 10, 1 >> } :
        Len(a) <= StockpileColumns }

InitialStockpile(amounts) ==
    [ id             |-> "stockpile",
      x              |-> 0,
      y              |-> 0,
      inventory      |->
          [ rows    |-> 1,
            columns |-> StockpileColumns,
            slots   |-> [ n \in DOMAIN amounts |->
                            InitialItem(10 + n, amounts[n], Null, "stockpile") ] ],
      inventoryState |-> << >> ]

RECURSIVE Flatten(_)
Flatten(ss) == IF ss = << >> THEN << >> ELSE Head(ss) \o Flatten(Tail(ss))

\* new CellController(...) followed by setupState(); order is the order of
\* the NPCs in the input, spawns the spawn table of the resources,
\* stockpileLists the lists of stockpiles the cell may have, spentObjects
\* are input objects that are in no inventory, lock is the cellLock if there
\* is one
CellSetupWith(order, spawns, stockpileLists, spentObjects, lock) ==
    /\ \E columns \in 1 .. NpcColumns :
       \E jobs \in [ 1 .. NumNpcs -> NpcJobs ] :
       \E carried \in [ 1 .. NumNpcs -> { << >>, << "sticks" >> } ] :
       \E stockpiles \in stockpileLists :
          LET slotsOf(i) ==
                  IF carried[i] = << >> THEN << >>
                  ELSE << InitialItem(i, 9, NpcNames[i], Null) >>
          IN  /\ \A i \in 1 .. NumNpcs : slotsOf(i) \in CarriedBy(i, jobs[i])
              /\ state =
                    [ NoCellState EXCEPT
                        !.npcs = [ i \in 1 .. NumNpcs |->
                                     [ readyTime |-> 0,
                                       data |-> InitialNpc(order[i], jobs[order[i]], columns,
                                                           slotsOf(order[i])) ] ],
                        !.resources = [ i \in 1 .. NumResources |->
                                          [ InitialResource(i) EXCEPT !.spawns = spawns ] ],
                        !.stockpiles = stockpiles ]
              /\ objects = Flatten([ i \in 1 .. NumNpcs |-> slotsOf(i) ])
                               \o Flatten([ i \in DOMAIN stockpiles |->
                                              stockpiles[i].inventory.slots ])
                               \o spentObjects
    /\ currentMilliseconds = 0
    /\ thrown = NoError
    /\ cellLock = lock
    /\ harvest = NoHarvest
    /\ building = NoBuilding
    /\ walk = NoWalk
    /\ calls = MaxCalls
    /\ holder = [ id |-> "id", kind |-> "person", rows |-> 1, columns |-> 1 ]
    /\ slots = << >>
    /\ rng = 0
    /\ before = << >>
    /\ ret = Returned("new", << >>, << >>, NoError, << >>, << >>, << >>, << >>)

\* the same for a cell of trees with one stockpile
CellSetupInOrder(order, spentObjects, lock) ==
    CellSetupWith(order, TreeSpawns,
                  { << InitialStockpile(amounts) >> : amounts \in StockpileAmounts },
                  spentObjects, lock)

\* the same for NPCs that are given in the order of their ids
CellSetup(spentObjects, lock) ==
    CellSetupInOrder([ i \in 1 .. NumNpcs |-> i ], spentObjects, lock)

\* a cell whose input objects are all in an inventory
CellInit == CellSetup(<< >>, << >>)

\* an input object that was consumed before the run: it does not exist, has
\* no state to come, and no NPC will touch it
SpentItem ==
    [ id                |-> << "object", "initial", 0 >>,
      objectType        |-> "STICK",
      grabbedByPersonId |-> Null,
      grabbedByNpcId    |-> Null,
      insideStockpile   |-> Null,
      isInInventory     |-> FALSE,
      amount            |-> 1,
      exist             |-> FALSE,
      state             |-> << >> ]

\* a cell with such an object among its input objects
SpentCellInit == CellSetup(<< SpentItem >>, << >>)

(***************************************************************************)
(* The lock of a cell.  The tests of the planner hand a cellLock to the    *)
(* controller; the controller of src/src/npc.ts does not take one yet.     *)
(* Its handling is written from the specification: "If cellLock.pauseDate  *)
(* is set and startTime + simClock >= cellLock.pauseDate, the planner      *)
(* halts and flushes.  All events emitted must have time <= pauseDate."    *)
(***************************************************************************)
\* the pause dates of the locks, in milliseconds after startTime
PauseDates == { 3000, 5000 }

\* a cell that is locked
LockedCellInit ==
    \E pauseDate \in PauseDates : CellSetup(<< >>, << [ pauseDate |-> pauseDate ] >>)

\* a planner that ignores the lock
paused_Never == FALSE

\* startTime + simClock >= cellLock.pauseDate
paused == cellLock # << >> /\ currentMilliseconds >= cellLock[1].pauseDate

\* the flush: the events that are emitted are those up to the pause date
flushed(events) ==
    LET UpToPause(event) == cellLock = << >> \/ event.time <= cellLock[1].pauseDate
    IN  SelectSeq(events, UpToPause)

(***************************************************************************)
(* run(maxMilliseconds): one action for each branch of an iteration of the *)
(* loop.  An error thrown by a handler ends the run.                       *)
(***************************************************************************)
Cell == [ state |-> state, currentMilliseconds |-> currentMilliseconds,
          thrown |-> thrown ]

Running == thrown = NoError /\ currentMilliseconds < MaxMilliseconds /\ ~paused

\* the controller after this.sortEvents()
SortedCell == sortEvents(Cell)

firstEventIndex == getFirstEventIndex(SortedCell)

JobType == SortedCell.state.npcs[firstEventIndex].data.job.type

Becomes(cell) ==
    /\ state' = cell.state
    /\ currentMilliseconds' = cell.currentMilliseconds
    /\ thrown' = cell.thrown
    /\ UNCHANGED << objects, cellLock, calls, holder, slots, rng, before, ret,
                    harvest, building, walk >>

\* no NPC is ready: skip time
SkipTime ==
    /\ Running
    /\ firstEventIndex = 0
    /\ Becomes([ SortedCell EXCEPT !.currentMilliseconds = @ + 1000 ])

HandleGatherJob ==
    /\ Running
    /\ firstEventIndex # 0
    /\ JobType = "GATHER"
    /\ \E k \in DOMAIN TreeSpawns, q \in RngQuick :
       \E cell \in { SortedCell } :
       \E next \in { handleGatherJob(cell, firstEventIndex, k, q) } :
          Becomes(next)

\* products[Math.floor(Math.random() * products.length)]: any product of the
\* list, and undefined when the list is empty
pickedProducts(products) ==
    IF products = << >> THEN { Null }
    ELSE { products[i] : i \in DOMAIN products }

HandleCraftJob ==
    /\ Running
    /\ firstEventIndex # 0
    /\ JobType = "CRAFT"
    /\ \E cell \in { SortedCell } :
       \E product \in pickedProducts(cell.state.npcs[firstEventIndex].data.job.products) :
       \E next \in { handleCraftJob(cell, firstEventIndex, product) } :
          Becomes(next)

NpcGoHome ==
    /\ Running
    /\ firstEventIndex # 0
    /\ JobType \notin {"GATHER", "CRAFT"}
    /\ \E cell \in { SortedCell } :
       \E next \in { npcGoHome(cell, firstEventIndex).cell } :
          Becomes(next)

CellNext == SkipTime \/ HandleGatherJob \/ HandleCraftJob \/ NpcGoHome

CellSpec == CellInit /\ [][CellNext]_vars

\* a cell whose NPCs are given in any order
AnyOrderCellInit ==
    \E order \in Permutations(1 .. NumNpcs) : CellSetupInOrder(order, << >>, << >>)

AnyOrderCellSpec == AnyOrderCellInit /\ [][CellNext]_vars

SpentCellSpec == SpentCellInit /\ [][CellNext]_vars

LockedCellSpec == LockedCellInit /\ [][CellNext]_vars

\* an inventory controller on its own, or the run of a cell
GameNext == Next \/ CellNext

GameSpec == (Init \/ CellInit) /\ [][GameNext]_vars

(***************************************************************************)
(* getState().objects and the replay of their events.                      *)
(***************************************************************************)
eventsOf(objectId) ==
    IF objectId \in DOMAIN state.networkObjectEvents
    THEN state.networkObjectEvents[objectId]
    ELSE << >>

\* the states of the events of an object
statesOf(objectId) ==
    [ j \in DOMAIN eventsOf(objectId) |-> eventsOf(objectId)[j].state ]

\* a spawned item with the states of its events
spawnedObject(spawnEvent) ==
    Spread(spawnEvent.spawn, [ state |-> statesOf(spawnEvent.spawn.id) ])

\* an object the controller was constructed with, with the states of its
\* events
modifiedObject(obj) == Spread(obj, [ state |-> statesOf(obj.id) ])

\* getState().objects: the spawned items, then the objects the controller
\* was constructed with; an object without a state is an error
getStateObjects ==
    IF \E i \in DOMAIN state.spawns : statesOf(state.spawns[i].spawn.id) = << >>
    THEN [ error |-> "Spawn Object Empty State", objects |-> << >> ]
    ELSE IF \E i \in DOMAIN objects : statesOf(objects[i].id) = << >>
    THEN [ error |-> "Modified Object Empty State", objects |-> << >> ]
    ELSE [ error   |-> NoError,
           objects |-> [ i \in DOMAIN state.spawns |-> spawnedObject(state.spawns[i]) ]
                       \o [ i \in DOMAIN objects |-> modifiedObject(objects[i]) ] ]

\* applyStateToNetworkObject at time `now': the states that are due, in
\* the order of the array
RECURSIVE applyStates(_, _, _)
applyStates(acc, states, now) ==
    IF states = << >> THEN acc
    ELSE applyStates(IF now >= Head(states).time
                     THEN Spread(acc, Head(states).state) ELSE acc,
                     Tail(states), now)

applyStateToNetworkObject(networkObject, now) ==
    applyStates(networkObject, networkObject.state, now)

\* the client applies the states of an object in ascending time order
inAscendingTime(networkObject) ==
    Spread(networkObject,
           [ state |-> SortBy(networkObject.state,
                              [ j \in DOMAIN networkObject.state |->
                                  networkObject.state[j].time ]) ])

(***************************************************************************)
(* Properties of the inventory controller.                                 *)
(***************************************************************************)
LastItem == ret.item[1]
LastRecipe == ret.recipe[1]

\* C1: after every call no slot holds more than the stack limit of its
\* type and the number of slots is at most rows x columns.
C1_StackLimitAndCapacity ==
    /\ \A i \in DOMAIN slots :
          slots[i].amount <= getMaxStackSize(slots[i].objectType)
    /\ Len(slots) <= holder.rows * holder.columns

\* a pickup refused by a full inventory that holds a full stack
C1_Witness ==
    /\ ret.op = "pickUpItem"
    /\ ret.error = NotEnoughRoom
    /\ Len(slots) = holder.rows * holder.columns
    /\ \E i \in DOMAIN slots :
          slots[i].amount = getMaxStackSize(slots[i].objectType)

\* C2: a call that fails leaves the slots exactly as they were before the
\* call (9 sticks and a failed WATTLE_WALL craft: one STICK slot of 9).
C2_FailureLeavesSlots ==
    ret.error # NoError => slots = before

\* the failed craft after 9 sticks
C2_Witness ==
    /\ ret.op = "craftItem"
    /\ ret.error = NotEnoughMaterials
    /\ LastRecipe = listOfRecipes[1]
    /\ Len(slots) = 1
    /\ slots[1].objectType = "STICK"
    /\ slots[1].amount = 9

\* C3: the crafting RNG advances only when craftItem succeeds: a successful
\* craft changes the crafting state and a failed craft, whatever its
\* error, leaves it as it was.
C3_RngAdvancesOnlyOnSuccess ==
    [][ ret'.op = "craftItem" =>
          IF ret'.error = NoError THEN rng' # rng ELSE rng' = rng ]_vars

\* C4: pickUpItem merges the item into the first slot of its type that has
\* room for its whole amount (no updated original, the merged slot as the
\* stacked slot); otherwise appends it with ownership set when a slot is
\* free (the appended item as the updated original); otherwise fails with
\* 'Not enough room for item'.
FirstFit(item, s) ==
    { i \in DOMAIN s :
        /\ s[i].objectType = item.objectType
        /\ s[i].amount + item.amount <= getMaxStackSize(item.objectType)
        /\ \A j \in 1 .. (i - 1) :
              ~ ( /\ s[j].objectType = item.objectType
                  /\ s[j].amount + item.amount <= getMaxStackSize(item.objectType) ) }

Owned(item) ==
    /\ item.isInInventory
    /\ item.grabbedByPersonId = (IF holder.kind = "person" THEN holder.id ELSE Null)
    /\ item.grabbedByNpcId = (IF holder.kind = "npc" THEN holder.id ELSE Null)

C4_PickUpPolicy ==
    ret.op = "pickUpItem" =>
        IF FirstFit(LastItem, before) # {}
        THEN \E i \in FirstFit(LastItem, before) :
                /\ ret.error = NoError
                /\ ret.updatedItem = << >>
                /\ Len(ret.stackableSlots) = 1
                /\ ret.stackableSlots[1].id = before[i].id
                /\ ret.stackableSlots[1].amount = before[i].amount + LastItem.amount
                /\ \E j \in DOMAIN slots : slots[j] = ret.stackableSlots[1]
        ELSE IF Len(before) < holder.rows * holder.columns
        THEN /\ ret.error = NoError
             /\ ret.stackableSlots = << >>
             /\ Len(ret.updatedItem) = 1
             /\ ret.updatedItem[1].id = LastItem.id
             /\ ret.updatedItem[1].amount = LastItem.amount
             /\ Owned(ret.updatedItem[1])
             /\ slots # << >>
             /\ slots[Len(slots)] = ret.updatedItem[1]
        ELSE ret.error = NotEnoughRoom

\* C5 (as claimed): for any item that can be picked up, pickUpItem(item)
\* followed by dropItem(item) preserves the total amount: the slots after
\* the drop plus the dropped item hold what the slots before the pickup
\* plus the item held.
RoundTripStep ==
    /\ ret.op = "pickUpItem"
    /\ ret.error = NoError
    /\ ret'.op = "dropItem"
    /\ ret'.item = ret.item

RoundTripConserves ==
    SumAmounts(slots') + ret'.updatedItem[1].amount
        = SumAmounts(before) + LastItem.amount

C5_RoundTripAnyItem ==
    [][ RoundTripStep => RoundTripConserves ]_vars

\* C5 (amended): the round trip preserves the total amount when the item's
\* id is not already in the inventory and the pickup stored the item in a
\* slot of its own (it returned an updated original).
C5_RoundTripAppendedItem ==
    [][ ( /\ RoundTripStep
          /\ ret.updatedItem # << >>
          /\ LastItem.id \notin IdsOf(before) ) => RoundTripConserves ]_vars

\* a loose item that was in a slot of its own has just been dropped from an
\* inventory that keeps other slots
C5_Witness ==
    /\ ret.op = "dropItem"
    /\ ~ LastItem.isInInventory
    /\ LastItem.id \in IdsOf(before)
    /\ LastItem.id \notin IdsOf(slots)
    /\ Len(slots) = Len(before) - 1
    /\ slots # << >>

\* C6: after a successful craftItem(recipe) the total of every input type
\* has gone down by the input's quantity, the total of the product type has
\* gone up by one, and the totals of all other types are unchanged.
QuantityOf(recipe, t) ==
    IF \E i \in DOMAIN recipe.items : recipe.items[i].item = t
    THEN (recipe.items[CHOOSE i \in DOMAIN recipe.items : recipe.items[i].item = t]).quantity
    ELSE 0

C6_CraftTotals ==
    (ret.op = "craftItem" /\ ret.error = NoError) =>
        \A t \in ENetworkObjectType :
            TotalOfType(slots, t) =
                TotalOfType(before, t) - QuantityOf(LastRecipe, t)
                    + (IF t = LastRecipe.product THEN 1 ELSE 0)

\* a craft with two inputs that used part of a stack of sticks
C6_Witness ==
    /\ ret.op = "craftItem"
    /\ ret.error = NoError
    /\ Len(LastRecipe.items) = 2
    /\ TotalOfType(slots, "STICK") > 0
    /\ TotalOfType(slots, "STICK") < TotalOfType(before, "STICK")
    /\ TotalOfType(slots, "WOOD") < TotalOfType(before, "WOOD")
    /\ TotalOfType(slots, "WATTLE_WALL") = TotalOfType(before, "WATTLE_WALL") + 1

\* C7: picking up an item whose id is already in the inventory is a no-op:
\* the id is still in exactly one slot and no slot's amount has changed.
C7_PickUpPresentIdIsNoOp ==
    (ret.op = "pickUpItem" /\ LastItem.id \in IdsOf(before)) =>
        /\ Cardinality({ i \in DOMAIN slots : slots[i].id = LastItem.id }) = 1
        /\ \A i \in DOMAIN before :
              \E j \in DOMAIN slots :
                  /\ slots[j].id = before[i].id
                  /\ slots[j].amount = before[i].amount

\* C8: at every visible snapshot -- the slots and the transaction after an
\* operation of the inventory controller, the inventories the planner keeps,
\* and every object at every time point when its events are replayed in
\* ascending time order -- an object has at most one of grabbedByPersonId,
\* grabbedByNpcId and insideStockpile set.
OwnershipFields == {"grabbedByPersonId", "grabbedByNpcId", "insideStockpile"}

OwnersOf(o) == { f \in OwnershipFields \cap DOMAIN o : o[f] # Null }

OneOwner(o) == Cardinality(OwnersOf(o)) <= 1

AllOneOwner(s) == \A i \in DOMAIN s : OneOwner(s[i])

\* every object the events of a run are about, with the states to replay
replayedObjects ==
    [ i \in DOMAIN state.spawns |-> spawnedObject(state.spawns[i]) ]
        \o [ i \in DOMAIN objects |-> modifiedObject(objects[i]) ]

\* the time points of the replay of an object
timePoints(networkObject) ==
    {0} \cup { networkObject.state[j].time : j \in DOMAIN networkObject.state }

snapshot(networkObject, now) ==
    applyStateToNetworkObject(inAscendingTime(networkObject), now)

C8_OneOwnerAtEverySnapshot ==
    /\ AllOneOwner(slots)
    /\ AllOneOwner(ret.updatedItem)
    /\ AllOneOwner(ret.stackableSlots)
    /\ AllOneOwner(ret.modifiedSlots)
    /\ \A i \in DOMAIN state.npcs :
          /\ AllOneOwner(state.npcs[i].data.inventory.slots)
          /\ \A j \in DOMAIN state.npcs[i].data.inventoryState :
                /\ AllOneOwner(state.npcs[i].data.inventoryState[j].add)
                /\ AllOneOwner(state.npcs[i].data.inventoryState[j].modified)
    /\ \A i \in DOMAIN state.stockpiles :
          /\ AllOneOwner(state.stockpiles[i].inventory.slots)
          /\ \A j \in DOMAIN state.stockpiles[i].inventoryState :
                /\ AllOneOwner(state.stockpiles[i].inventoryState[j].add)
                /\ AllOneOwner(state.stockpiles[i].inventoryState[j].modified)
    /\ \A i \in DOMAIN replayedObjects :
          \A now \in timePoints(replayedObjects[i]) :
              OneOwner(snapshot(replayedObjects[i], now))

\* an object changes from the owner field `from' to the owner field `to'
\* in the replay
ChangesOwner(networkObject, from, to) ==
    \E t1, t2 \in timePoints(networkObject) :
        /\ t1 < t2
        /\ OwnersOf(snapshot(networkObject, t1)) = {from}
        /\ OwnersOf(snapshot(networkObject, t2)) = {to}

\* one run deposits an item an NPC held, withdraws an item the stockpile
\* held, and an NPC holds an item it picked up at a tree
C8_Witness ==
    /\ \E i \in DOMAIN replayedObjects :
          ChangesOwner(replayedObjects[i], "grabbedByNpcId", "insideStockpile")
    /\ \E i \in DOMAIN replayedObjects :
          ChangesOwner(replayedObjects[i], "insideStockpile", "grabbedByNpcId")
    /\ \E i \in DOMAIN state.npcs :
          \E j \in DOMAIN state.npcs[i].data.inventory.slots :
              OwnersOf(state.npcs[i].data.inventory.slots[j]) = {"grabbedByNpcId"}

\* C9 (as claimed): two slots of one type coexist only if at least one of
\* them is at its stack limit.
C9_OnePartialStackPerType ==
    \A i, j \in DOMAIN slots :
        (i # j /\ slots[i].objectType = slots[j].objectType) =>
            \/ slots[i].amount = getMaxStackSize(slots[i].objectType)
            \/ slots[j].amount = getMaxStackSize(slots[j].objectType)

\* C9 (amended): a pickup gives the item a slot of its own only if no slot
\* of its type had room for the item's whole amount; stacks left partly
\* used are not consolidated.
C9_NewSlotOnlyWhenNoStackFits ==
    (ret.op = "pickUpItem" /\ ret.updatedItem # << >>) =>
        \A i \in DOMAIN before :
            before[i].objectType = LastItem.objectType =>
                before[i].amount + LastItem.amount
                    > getMaxStackSize(LastItem.objectType)

\* a pickup that opened a second slot of a type next to a partial stack
C9_Witness ==
    /\ ret.op = "pickUpItem"
    /\ ret.updatedItem # << >>
    /\ \E i \in DOMAIN before :
          /\ before[i].objectType = LastItem.objectType
          /\ before[i].id # LastItem.id
          /\ before[i].amount < getMaxStackSize(LastItem.objectType)

\* C10: the transaction of removeCraftingRecipeItem and craftItem is the
\* minimal delta: deletedSlots is exactly the ids of the slots whose amount
\* reached zero and modifiedSlots exactly the slots whose amount was
\* reduced and is still positive.
ReducedIds ==
    { before[i].id : i \in { k \in DOMAIN before :
        \E j \in DOMAIN slots :
            /\ slots[j].id = before[k].id
            /\ slots[j].amount < before[k].amount } }

C10_MinimalDelta ==
    (ret.op \in {"removeCraftingRecipeItem", "craftItem"} /\ ret.error = NoError) =>
        /\ { ret.deletedSlots[i] : i \in DOMAIN ret.deletedSlots }
              = IdsOf(before) \ IdsOf(slots)
        /\ IdsOf(ret.modifiedSlots) = ReducedIds


(***************************************************************************)
(* The run of a cell: termination, determinism, order of the events.       *)
(***************************************************************************)
\* the iteration of the loop for the first ready NPC, for each product that
\* Math.random() may pick
iterations ==
    IF firstEventIndex = 0
    THEN { [ SortedCell EXCEPT !.currentMilliseconds = @ + 1000 ] }
    ELSE IF JobType = "GATHER"
    THEN { handleGatherJob(SortedCell, firstEventIndex, k, q) :
             k \in DOMAIN TreeSpawns, q \in RngQuick }
    ELSE IF JobType = "CRAFT"
    THEN { handleCraftJob(SortedCell, firstEventIndex, product) :
             product \in pickedProducts(
                            SortedCell.state.npcs[firstEventIndex].data.job.products) }
    ELSE { npcGoHome(SortedCell, firstEventIndex).cell }

\* an iteration of the loop can change the controller
canIterate == Running /\ \E cell \in iterations : cell # Cell

\* The while loop of run() runs its next iteration for as long as its
\* condition holds, so an iteration that can change the controller is
\* eventually taken.  This is WF_vars(CellNext); for the dispatch of an NPC
\* the enabling condition is written out as the state predicate canIterate.
CellFairSpec ==
    /\ CellSpec
    /\ WF_vars(SkipTime)
    /\ ([]<>~canIterate \/ []<><<CellNext>>_vars)

\* C11: every run(maxMilliseconds) that does not abort with a thrown error
\* reaches a simulation clock of at least maxMilliseconds: the loop exits
\* after finitely many iterations, whatever the jobs and products lists are.
C11_RunReachesHorizon ==
    <>(thrown # NoError \/ currentMilliseconds >= MaxMilliseconds)

\* the loop is running, an NPC is dispatched, and the iteration leaves the
\* controller as it found it: the next iteration is the same one
C11_IterationWithoutProgress ==
    /\ Running
    /\ firstEventIndex # 0
    /\ SortedCell \in iterations

\* what handleCraftJob may make of the controller when a crafter is
\* dispatched: one controller for each product Math.random() may pick
craftIterations ==
    IF firstEventIndex # 0 /\ JobType = "CRAFT"
    THEN { handleCraftJob(SortedCell, firstEventIndex, product) :
             product \in pickedProducts(
                            SortedCell.state.npcs[firstEventIndex].data.job.products) }
    ELSE { }

\* C12: two planners built from the same input and run for the same horizon
\* produce equal outputs.  The events a run has emitted stay in its output,
\* so two runs that are in the same state and dispatch the same NPC must not
\* emit different events: every iteration that changes the controller
\* changes it in one way only.
C12_SameInputSameOutput ==
    Running =>
        \A c1, c2 \in craftIterations :
            (c1 # SortedCell /\ c2 # SortedCell) => c1 = c2

(***************************************************************************)
(* getState(): the NPCs and the stockpiles of the output.                  *)
(***************************************************************************)
\* the run is over and getState() is called
runEnded == thrown = NoError /\ (currentMilliseconds >= MaxMilliseconds \/ paused)

\* the run is over and getState() returns the output
getStateReturns == runEnded /\ getStateObjects.error = NoError

\* the inventory events the run emitted for an NPC, in emission order
npcInventoryEventsOf(npcId) ==
    IF npcId \in DOMAIN state.npcInventoryEvents
    THEN state.npcInventoryEvents[npcId]
    ELSE << >>

\* getState().npcs: the input NPC with the path the run walked (the input
\* has no path point to keep) and the states of its inventory events
getStateNpc(npcEvent) ==
    [ id             |-> npcEvent.data.id,
      path           |-> npcEvent.data.path,
      inventoryState |-> [ j \in DOMAIN npcInventoryEventsOf(npcEvent.data.id) |->
                             npcInventoryEventsOf(npcEvent.data.id)[j].state ] ]

getStateNpcs == [ i \in DOMAIN state.npcs |-> getStateNpc(state.npcs[i]) ]

\* the times of a list of timed entries never go back
nonDecreasingTimes(entries) ==
    \A j \in 1 .. (Len(entries) - 1) : entries[j].time <= entries[j + 1].time

\* C13: in the output of a run the path of every NPC is ordered in time:
\* path[i].time <= path[i+1].time for every two consecutive points, for
\* every job and also when one dispatched action is made of several walks.
C13_PathTimesNonDecreasing ==
    getStateReturns =>
        \A i \in DOMAIN getStateNpcs : nonDecreasingTimes(getStateNpcs[i].path)

\* C14: the inventory events emitted for one NPC during a run, in the order
\* of their emission, are non-decreasing in time.
C14_NpcEventTimesNonDecreasing ==
    getStateReturns =>
        \A i \in DOMAIN getStateNpcs :
            nonDecreasingTimes(getStateNpcs[i].inventoryState)

\* the inventory events the run emitted for a stockpile, in emission order
stockpileInventoryEventsOf(stockpileId) ==
    IF stockpileId \in DOMAIN state.stockpileInventoryEvents
    THEN state.stockpileInventoryEvents[stockpileId]
    ELSE << >>

\* +a.time where a.time is the ISO string of a date, as toISOString() gives
\* it ("2020-01-01T00:00:00.000Z"): the string is no numeric literal and the
\* unary plus gives NaN, whatever the date is
NaN == "NaN"
unaryPlus(isoTime) == NaN

\* (a, b) => +a.time - +b.time
compareTimes(a, b) ==
    IF unaryPlus(a.time) = NaN \/ unaryPlus(b.time) = NaN THEN NaN
    ELSE unaryPlus(a.time) - unaryPlus(b.time)

\* Array.prototype.sort takes a comparison that is NaN for 0: the entries
\* that compare as equal to every other entry keep their place (the sort is
\* stable), the others are ordered by their time
sortKey(entries, j) ==
    IF \A k \in DOMAIN entries : compareTimes(entries[j], entries[k]) = NaN
    THEN 0
    ELSE entries[j].time

\* getState().stockpiles: the input stockpile (it has no inventory state of
\* its own to come) with the states of the events of the run, sorted
getStateStockpile(stockpile) ==
    LET relevantInventoryEvents == stockpileInventoryEventsOf(stockpile.id)
        states == [ j \in DOMAIN relevantInventoryEvents |->
                      relevantInventoryEvents[j].state ]
    IN  [ id             |-> stockpile.id,
          inventoryState |-> SortBy(states, [ j \in DOMAIN states |->
                                                sortKey(states, j) ]) ]

getStateStockpiles ==
    [ i \in DOMAIN state.stockpiles |-> getStateStockpile(state.stockpiles[i]) ]

\* C15: in the output of the planner the inventoryState list of every
\* stockpile is ordered by time, also when NPCs that walk different
\* distances deposit into it and withdraw from it.
C15_StockpileStatesOrderedByTime ==
    getStateReturns =>
        \A i \in DOMAIN getStateStockpiles :
            nonDecreasingTimes(getStateStockpiles[i].inventoryState)

\* a time later than that of every event of a run
farFuture == 1000 * MaxMilliseconds

\* applyFutureStateToNetworkObject(obj): all the states of the object are
\* applied, those still to come included
applyFutureStateToNetworkObject(networkObject) ==
    applyStateToNetworkObject(networkObject, farFuture)

\* the object lies on the ground: it exists, is in no inventory and in no
\* stockpile
isLoose(networkObject) ==
    /\ networkObject.exist
    /\ ~networkObject.isInInventory
    /\ networkObject.insideStockpile = Null

\* C16: after a full run no object of the output is left loose on the
\* ground for ever: with all its state events applied it has exist = false,
\* or isInInventory = true, or insideStockpile set.  This holds for an
\* object picked up into a new slot, merged into a stack, deposited,
\* withdrawn or crafted.
C16_NoObjectLeak ==
    getStateReturns =>
        \A i \in DOMAIN getStateObjects.objects :
            ~isLoose(applyFutureStateToNetworkObject(getStateObjects.objects[i]))

\* the ids of the items the run emitted: the harvested spawns and the
\* crafted items, in the order of spawnItem
emittedIds == [ i \in DOMAIN state.spawns |-> state.spawns[i].spawn.id ]

\* C17: every item a run emits (a harvest spawn, a crafted item in the
\* objects of the output) has an id different from that of every other
\* emitted item.
C17_EmittedIdsUnique ==
    getStateReturns =>
        \A i, j \in DOMAIN emittedIds : emittedIds[i] = emittedIds[j] => i = j

(***************************************************************************)
(* The stockpiles the run keeps in memory, against the events it emitted.  *)
(***************************************************************************)
\* the stockpile as the controller was constructed with it: its slots are
\* the input objects that are inside it
initialStockpile(stockpile) ==
    LET Inside(obj) == obj.insideStockpile = stockpile.id
    IN  [ stockpile EXCEPT !.inventory.slots = SelectSeq(objects, Inside),
                           !.inventoryState = << >> ]

\* applyOneInventoryState for each event, in the order of the list
RECURSIVE applyInventoryEvents(_, _)
applyInventoryEvents(acc, events) ==
    IF events = << >> THEN acc
    ELSE applyInventoryEvents(applyOneInventoryState(acc, Head(events).state),
                              Tail(events))

\* the initial stockpile with every inventory event emitted for it so far
replayedStockpile(stockpile) ==
    applyInventoryEvents(initialStockpile(stockpile),
                         stockpileInventoryEventsOf(stockpile.id))

\* C18: after every iteration of the loop the snapshot the run keeps of a
\* stockpile is the initial snapshot with every inventory event emitted so
\* far applied in emission order; it never has more than rows x columns
\* slots and never still holds a slot that was withdrawn.
C18_StockpileSnapshotFollowsEvents ==
    thrown = NoError =>
        \A i \in DOMAIN state.stockpiles :
            LET stockpile == state.stockpiles[i]
            IN  /\ stockpile.inventory.slots = replayedStockpile(stockpile).inventory.slots
                /\ Len(stockpile.inventory.slots)
                       <= stockpile.inventory.rows * stockpile.inventory.columns

\* the ids of the objects getState() returns
outputObjectIds ==
    { getStateObjects.objects[i].id : i \in DOMAIN getStateObjects.objects }

\* C20: an input object that the run left without any state event and that
\* does not exist is left out of the objects of the output, and its presence
\* does not make getState() fail.
C20_SpentObjectIsOmitted ==
    runEnded =>
        /\ getStateObjects.error = NoError
        /\ \A i \in DOMAIN objects :
              (~objects[i].exist /\ statesOf(objects[i].id) = << >>)
                  => objects[i].id \notin outputObjectIds

(***************************************************************************)
(* The lock of the cell.                                                   *)
(***************************************************************************)
\* the events of the lists of a table of events by id
eventsIn(events) ==
    UNION { { events[id][j] : j \in DOMAIN events[id] } : id \in DOMAIN events }

\* the events of such a table that are emitted
emittedIn(events) ==
    UNION { { flushed(events[id])[j] : j \in DOMAIN flushed(events[id]) } :
              id \in DOMAIN events }

\* every event the run has planned, and every event it emits
plannedEvents ==
    eventsIn(state.networkObjectEvents) \cup eventsIn(state.npcInventoryEvents)
        \cup eventsIn(state.stockpileInventoryEvents) \cup eventsIn(state.resourceEvents)

emittedEvents ==
    emittedIn(state.networkObjectEvents) \cup emittedIn(state.npcInventoryEvents)
        \cup emittedIn(state.stockpileInventoryEvents) \cup emittedIn(state.resourceEvents)

MaxSpawns == 4

\* the generator of the seedrandom package, alea, keeps three fractions s0,
\* s1, s2 of [0, 1) and a carry c; the fractions are counted here in units
\* of 1 / RngModulus
RngModulus == 16

\* the engine and the planner are not in use
NoInventory ==
    /\ calls = MaxCalls
    /\ holder = [ id |-> "id", kind |-> "person", rows |-> 1, columns |-> 1 ]
    /\ slots = << >>
    /\ rng = 0
    /\ before = << >>
    /\ ret = Returned("new", << >>, << >>, NoError, << >>, << >>, << >>, << >>)

NoCell ==
    /\ currentMilliseconds = MaxMilliseconds
    /\ state = NoCellState
    /\ objects = << >>
    /\ thrown = NoError
    /\ cellLock = << >>

EmptySpawnList == "Resource with an empty spawn list"
TypeError == "TypeError: Cannot read property 'type' of undefined"

\* the hash of a seed string, three values for the three fractions
mash(seed) ==
    CASE seed = " "             -> << 13, 6, 11 >>
      [] seed = ""              -> << 0, 0, 0 >>
      [] seed = "resource(0,0)" -> << 3, 9, 4 >>
      [] OTHER                  -> << 7, 2, 14 >>

\* new Alea(seed)
Alea(seed) ==
    [ c  |-> 1,
      s0 |-> (mash(" ")[1] - mash(seed)[1]) % RngModulus,
      s1 |-> (mash(" ")[2] - mash(seed)[2]) % RngModulus,
      s2 |-> (mash(" ")[3] - mash(seed)[3]) % RngModulus ]

\* xg.next(): t = 2091639 * s0 + c * 2^-32; s0 = s1; s1 = s2;
\* s2 = t - (c = t | 0); the value drawn is the new s2
xgNext(xg) ==
    LET t == 2091639 * xg.s0 + xg.c
    IN  [ c  |-> t \div RngModulus,
          s0 |-> xg.s1,
          s1 |-> xg.s2,
          s2 |-> t % RngModulus ]

\* the generator after n draws
RECURSIVE draws(_, _)
draws(xg, n) == IF n = 0 THEN xg ELSE xgNext(draws(xg, n - 1))

\* a generator that is seeded again and forgets the state handed to it
alea_Reseeded(seed, spawnState) == Alea(seed)

\* seedrandom.alea(seed, { state }): the generator is seeded, and the state
\* handed to it, if it is one, is copied over it (c, s0, s1, s2).  A
\* spawnState of true is the empty sequence here, a state is << state >>
alea(seed, spawnState) ==
    IF spawnState = << >> THEN Alea(seed) ELSE spawnState[1]

\* rng.int32(): (next() * 0x100000000) | 0, a signed 32 bit integer: the
\* upper half of the fractions wraps to the negative numbers
int32(xg) ==
    LET unit == (65536 \div RngModulus) * 65536
    IN  IF 2 * xg.s2 >= RngModulus THEN (xg.s2 - RngModulus) * unit
        ELSE xg.s2 * unit

\* resource.spawns.reduce((acc, s) => acc + s.probability, 0)
RECURSIVE sumProbability(_)
sumProbability(spawns) ==
    IF spawns = << >> THEN 0
    ELSE spawns[1].probability + sumProbability(Tail(spawns))

\* the spawns with the sum of the probabilities before them, reversed
spawnsCumulativeProbability(spawns) ==
    [ i \in 1 .. Len(spawns) |->
        [ spawns[Len(spawns) + 1 - i] EXCEPT
            !.probability = sumProbability(SubSeq(spawns, 1, Len(spawns) - i)) ] ]

\* new HarvestResourceController(resource)
HarvestResourceController(resource) ==
    [ resource |-> resource,
      error    |-> IF Len(resource.spawns) = 0 THEN EmptySpawnList ELSE NoError,
      rng      |-> alea(IF resource.spawnState = << >> THEN resource.spawnSeed ELSE "",
                        resource.spawnState),
      sumCumulativeProbability    |-> sumProbability(resource.spawns),
      spawnsCumulativeProbability |-> spawnsCumulativeProbability(resource.spawns) ]

\* Math.floor(this.rng.quick() * 200) - 100
offset(xg) == (xg.s2 * 200) \div RngModulus - 100

\* Math.ceil(a / b) for b > 0
Ceil(a, b) == -((-a) \div b)

\* controller.spawn(): the draws are the pick, x, y, the id and the respawn
\* time; when no entry of the table is below the pick, find() gives
\* undefined and reading its type throws after the third draw
spawnOf(this) ==
    LET pick == xgNext(this.rng)
        table == this.spawnsCumulativeProbability
        found == FindIndex([ i \in DOMAIN table |->
                     table[i].probability * RngModulus
                         < pick.s2 * this.sumCumulativeProbability ])
        atX == xgNext(pick)
        atY == xgNext(atX)
        atId == xgNext(atY)
        atTime == xgNext(atId)
    IN  IF found = 0
        THEN [ rng |-> atY,
               result |-> [ error |-> TypeError, spawn |-> << >>, respawnTime |-> 0 ] ]
        ELSE [ rng |-> atTime,
               result |->
                 [ error |-> NoError,
                   spawn |-> << [ x          |-> this.resource.x + offset(atX),
                                  y          |-> this.resource.y + offset(atY),
                                  objectType |-> table[found].type,
                                  id         |-> << "object", int32(atId) >>,
                                  amount     |-> 1,
                                  exist      |-> TRUE ] >>,
                   respawnTime |->
                       Ceil(2 * atTime.s2 * table[found].spawnTime
                                + RngModulus * table[found].spawnTime,
                            2 * RngModulus) ] ]

\* controller.saveState(): a copy of c, s0, s1, s2
rngState(this) == << this.rng >>

\* the spawns of a tree (resourceSpawnData)
resourceSpawnData ==
    << [ type |-> "STICK", probability |-> 95, spawnTime |-> 60000 ],
       [ type |-> "WOOD", probability |-> 5, spawnTime |-> 60000 ] >>

\* the spawn tables of the nodes: a tree, a table with no entry, a table
\* whose entries have probability zero, a table that starts with one
SpawnTables ==
    { resourceSpawnData,
      << >>,
      << [ type |-> "STICK", probability |-> 0, spawnTime |-> 60000 ] >>,
      << [ type |-> "STICK", probability |-> 0, spawnTime |-> 60000 ],
         [ type |-> "WOOD", probability |-> 5, spawnTime |-> 60000 ] >> }

\* createResource(point, objectType), and the same node as it is stored
\* after some harvests: its spawnState is a saved state
ResourceNodes ==
    { [ id |-> seed, x |-> p, y |-> 0, spawnSeed |-> seed,
        spawns |-> spawns, spawnState |-> spawnState ] :
      p \in { 0, 500 }, seed \in { "resource(0,0)", "resource(500,0)" },
      spawns \in SpawnTables,
      spawnState \in { << >> } \cup { << draws(Alea(""), n) >> : n \in { 5 } } }

Harvest == harvest[1]

HarvestInit ==
    /\ NoInventory
    /\ NoCell
    /\ building = NoBuilding
    /\ walk = NoWalk
    /\ \E resource \in ResourceNodes :
          harvest = << [ controller |-> HarvestResourceController(resource),
                         spawned    |-> << >>,
                         resumed    |-> << >> ] >>

\* controller.spawn() on the first controller
Spawn ==
    /\ Harvest.controller.error = NoError
    /\ Len(Harvest.spawned) < MaxSpawns
    /\ \E s \in { spawnOf(Harvest.controller) } :
          harvest' = << [ Harvest EXCEPT !.controller.rng = s.rng,
                                         !.spawned = Append(@, s.result) ] >>
    /\ UNCHANGED << inventoryVars, cellVars, constructionVars, pathVars >>

\* new HarvestResourceController({ ...resource, spawnState: controller.saveState() })
Resume ==
    /\ Harvest.controller.error = NoError
    /\ Harvest.resumed = << >>
    /\ harvest' =
         << [ Harvest EXCEPT !.resumed =
                << [ from       |-> Len(Harvest.spawned),
                     controller |-> HarvestResourceController(
                                        [ Harvest.controller.resource EXCEPT
                                            !.spawnState = rngState(Harvest.controller) ]),
                     spawned    |-> << >> ] >> ] >>
    /\ UNCHANGED << inventoryVars, cellVars, constructionVars, pathVars >>

\* controller.spawn() on the controller that was resumed
ResumedSpawn ==
    /\ Harvest.resumed # << >>
    /\ Len(Harvest.resumed[1].spawned) < MaxSpawns
    /\ \E s \in { spawnOf(Harvest.resumed[1].controller) } :
          harvest' = << [ Harvest EXCEPT !.resumed[1].controller.rng = s.rng,
                                         !.resumed[1].spawned = Append(@, s.result) ] >>
    /\ UNCHANGED << inventoryVars, cellVars, constructionVars, pathVars >>

HarvestNext == Spawn \/ Resume \/ ResumedSpawn

HarvestSpec == HarvestInit /\ [][HarvestNext]_vars

\* C21: whenever a controller was made from the state saved after N spawns,
\* its spawns are, one by one, the spawns the first controller makes after
\* its N-th: type, position, id and respawn delay
C21_ResumedSpawnsAreTheSame ==
    Harvest.resumed # << >> =>
        \A i \in 1 .. Len(Harvest.resumed[1].spawned) :
            Harvest.resumed[1].from + i <= Len(Harvest.spawned) =>
                Harvest.resumed[1].spawned[i]
                    = Harvest.spawned[Harvest.resumed[1].from + i]

\* a controller resumed after two spawns has made two more, as has the
\* first, and the four spawns are items that differ
C21_Witness ==
    /\ Harvest.resumed # << >>
    /\ Harvest.resumed[1].from = 2
    /\ Len(Harvest.resumed[1].spawned) >= 2
    /\ Len(Harvest.spawned) >= 4
    /\ \A i \in 1 .. 4 : Harvest.spawned[i].error = NoError
    /\ \A i, j \in 1 .. 4 : i # j => Harvest.spawned[i] # Harvest.spawned[j]

\* C22: a controller of a node whose spawn table has no probability mass
\* (no entry, or every probability zero) never returns an item: it cannot
\* be made, or each of its spawns fails, and the only error it fails with is
\* that of the malformed table, 'Resource with an empty spawn list'
C22_NoMassFailsAsMalformed ==
    sumProbability(Harvest.controller.resource.spawns) = 0 =>
        /\ Harvest.controller.error \in { NoError, EmptySpawnList }
        /\ \A i \in DOMAIN Harvest.spawned :
              Harvest.spawned[i].error = EmptySpawnList

(***************************************************************************)
(* ConstructionController (src/src/construction.ts).  A controller holds   *)
(* the houses, floors and walls of an area and the InventoryController of  *)
(* the person who builds; constructBuilding(location) adds the tile at the *)
(* location, or removes it when there is one.  The inventory is that of    *)
(* the engine above: slots and the state of the crafting RNG.              *)
(***************************************************************************)
\* the number of constructBuilding / constructStockpile calls of a first pass
MaxConstructions == 4

CannotConnectBuildings == "Cannot connect two separate buildings"
HouseTooLongEastToWest == "House is too long east to west"
HouseTooLongNorthToSouth == "House is too long north to south"

\* the person of the tests
Builder(columns) == [ id |-> "id", kind |-> "person", rows |-> 1, columns |-> columns ]

\* getHouseId(): `house-${this.newItemId()}`
getHouseId(this, craftingState) == << "house" >> \o newItemId(this, craftingState)

\* createNewHouse(houseId, location): the npcId is another getHouseId()
createNewHouse(this, houseId, location, craftingState) ==
    [ id      |-> houseId,
      ownerId |-> this.id,
      x       |-> location.x,
      y       |-> location.y,
      npcId   |-> getHouseId(this, craftingState) ]

\* createNewWall(l, direction)
createNewWall(this, x, y, direction) ==
    [ id          |-> << "wall", direction, x, y >>,
      ownerId     |-> this.id,
      x           |-> x,
      y           |-> y,
      wallPattern |-> "WATTLE",
      direction   |-> direction ]

\* createNewFloor(houseId, location)
createNewFloor(this, houseId, location) ==
    [ id      |-> << "floor", location.x, location.y >>,
      ownerId |-> this.id,
      houseId |-> houseId,
      x       |-> location.x,
      y       |-> location.y ]

\* tiles.filter((tile) => tile.x === x && tile.y === y)
tilesAt(tiles, x, y) ==
    LET At(tile) == tile.x = x /\ tile.y = y IN SelectSeq(tiles, At)

\* the west, east, north and south neighbours of a location
neighborTiles(tiles, location) ==
    tilesAt(tiles, location.x - 200, location.y)
        \o tilesAt(tiles, location.x + 200, location.y)
        \o tilesAt(tiles, location.x, location.y - 200)
        \o tilesAt(tiles, location.x, location.y + 200)

\* a check that asks for a wall on each of the four sides
checkNeighboringFloorTiles_AllSides(this, floors, location, removeTile) ==
    LET neighbors == neighborTiles(floors, location)
    IN  [ wallsToAdd |->
              << createNewWall(this, location.x, location.y, "VERTICAL"),
                 createNewWall(this, location.x + 200, location.y, "VERTICAL"),
                 createNewWall(this, location.x, location.y, "HORIZONTAL"),
                 createNewWall(this, location.x, location.y + 200, "HORIZONTAL") >>,
          neighborHouseIds |-> { neighbors[i].houseId : i \in DOMAIN neighbors } ]

\* checkNeighboringFloorTiles(floors, location, removeTile)
checkNeighboringFloorTiles(this, floors, location, removeTile) ==
    LET thereIsWestNeighbor == tilesAt(floors, location.x - 200, location.y) # << >>
        thereIsEastNeighbor == tilesAt(floors, location.x + 200, location.y) # << >>
        thereIsNorthNeighbor == tilesAt(floors, location.x, location.y - 200) # << >>
        thereIsSouthNeighbor == tilesAt(floors, location.x, location.y + 200) # << >>
        neighbors == neighborTiles(floors, location)
    IN  [ wallsToAdd |->
              (IF thereIsWestNeighbor = removeTile
               THEN << createNewWall(this, location.x, location.y, "VERTICAL") >>
               ELSE << >>)
              \o (IF thereIsEastNeighbor = removeTile
                  THEN << createNewWall(this, location.x + 200, location.y, "VERTICAL") >>
                  ELSE << >>)
              \o (IF thereIsNorthNeighbor = removeTile
                  THEN << createNewWall(this, location.x, location.y, "HORIZONTAL") >>
                  ELSE << >>)
              \o (IF thereIsSouthNeighbor = removeTile
                  THEN << createNewWall(this, location.x, location.y + 200, "HORIZONTAL") >>
                  ELSE << >>),
          neighborHouseIds |-> { neighbors[i].houseId : i \in DOMAIN neighbors } ]

\* the extent of a set of coordinates: max - min
extent(coordinates) ==
    CHOOSE d \in { a - b : a, b \in coordinates } :
        \A a, b \in coordinates : a - b <= d

\* a building that may be one tile longer
tooLong_ByOne(coordinates, tiles) == extent(coordinates) > tiles * 200

\* maxX - minX >= 3 * 200
tooLong(coordinates, tiles) == extent(coordinates) >= tiles * 200

\* a controller that joins whatever it touches
separate_Never(neighborIds) == FALSE

\* nearbyHouseIds.length is neither 0 nor 1
separate(neighborIds) == Cardinality(neighborIds) > 1

\* a house that stays when its last floor goes
isLastFloor_Never(houseFloors) == FALSE

\* houseFloors.length <= 1
isLastFloor(houseFloors) == Len(houseFloors) <= 1

\* arr.filter((a) => !toRemove.some((r) => r.id === a.id))
withoutIds(arr, toRemove) ==
    LET Kept(a) == \A i \in DOMAIN toRemove : toRemove[i].id # a.id
    IN  SelectSeq(arr, Kept)

\* determineBuildingRequirements({ location, houses, floors, walls }): the
\* error thrown (or none), the changes, and the state of the crafting RNG,
\* from which a new house takes two ids
determineBuildingRequirements(this, location, allHouses, floors, walls, craftingState) ==
    LET IsNeighboringWall(wall) ==
            \/ wall.direction = "VERTICAL" /\ wall.x = location.x /\ wall.y = location.y
            \/ wall.direction = "VERTICAL" /\ wall.x = location.x + 200 /\ wall.y = location.y
            \/ wall.direction = "HORIZONTAL" /\ wall.x = location.x /\ wall.y = location.y
            \/ wall.direction = "HORIZONTAL" /\ wall.x = location.x /\ wall.y = location.y + 200
        wallsToRemove == SelectSeq(walls, IsNeighboringWall)
        matchingFloorAtLocation == tilesAt(floors, location.x, location.y)
        Requirements(error, rngAfter, housesToAdd, floorsToAdd, wallsToAdd, housesToRemove, floorsToRemove) ==
            [ error          |-> error,
              rng            |-> rngAfter,
              housesToAdd    |-> housesToAdd,
              floorsToAdd    |-> floorsToAdd,
              wallsToAdd     |-> wallsToAdd,
              housesToRemove |-> housesToRemove,
              floorsToRemove |-> floorsToRemove,
              wallsToRemove  |-> wallsToRemove ]
    IN  IF matchingFloorAtLocation # << >>
        THEN LET houseId == matchingFloorAtLocation[1].houseId
                 InHouse(floor) == floor.houseId = houseId
                 IsHouse(house) == house.id = houseId
                 houseFloors == SelectSeq(floors, InHouse)
                 result == checkNeighboringFloorTiles(this, floors, location, TRUE)
             IN  Requirements(NoError, craftingState, << >>, << >>, result.wallsToAdd,
                              IF isLastFloor(houseFloors) THEN SelectSeq(allHouses, IsHouse)
                              ELSE << >>,
                              matchingFloorAtLocation)
        ELSE LET result == checkNeighboringFloorTiles(this, floors, location, FALSE)
                 nearbyHouseIds == result.neighborHouseIds
                 houseId == IF nearbyHouseIds = { } THEN getHouseId(this, craftingState)
                            ELSE CHOOSE id \in nearbyHouseIds : TRUE
                 housesToAdd ==
                     IF nearbyHouseIds = { }
                     THEN << createNewHouse(this, houseId, location, craftingState + 1) >>
                     ELSE << >>
                 rngAfter == IF nearbyHouseIds = { } THEN craftingState + 2
                             ELSE craftingState
                 newFloor == createNewFloor(this, houseId, location)
                 InHouse(floor) == floor.houseId = houseId
                 houseFloors == SelectSeq(Append(floors, newFloor), InHouse)
                 error ==
                     IF separate(nearbyHouseIds) THEN CannotConnectBuildings
                     ELSE IF tooLong({ houseFloors[i].x : i \in DOMAIN houseFloors }, 3)
                     THEN HouseTooLongEastToWest
                     ELSE IF tooLong({ houseFloors[i].y : i \in DOMAIN houseFloors }, 3)
                     THEN HouseTooLongNorthToSouth
                     ELSE NoError
             IN  Requirements(error, rngAfter, housesToAdd, << newFloor >>,
                              result.wallsToAdd, << >>, << >>)

\* determineConstructionMaterialsDifference: every wall is of wattle, a wall
\* to add takes a WATTLE_WALL from the inventory and a wall to remove gives
\* one back, created with an id of the crafting RNG
determineConstructionMaterialsDifference(this, wallsToAdd, wallsToRemove, craftingState) ==
    [ itemsToRemove |->
          IF wallsToAdd = << >> THEN << >>
          ELSE << [ item |-> "WATTLE_WALL", quantity |-> Len(wallsToAdd) ] >>,
      itemsToAdd |->
          [ i \in DOMAIN wallsToRemove |->
              createItemType(this, "WATTLE_WALL", craftingState + i - 1) ],
      rng |-> craftingState + Len(wallsToRemove) ]

\* for (const craftingRecipeItem of itemsToRemove)
\*     this.inventoryController.removeCraftingRecipeItem(craftingRecipeItem)
RECURSIVE removeItems(_, _)
removeItems(itemsToRemove, thisSlots) ==
    IF itemsToRemove = << >> THEN [ error |-> NoError, slots |-> thisSlots ]
    ELSE The({ IF r.error # NoError
               THEN [ error |-> r.error,
                      slots |-> SlotsAfterThrow(thisSlots, r.copyOfSlots) ]
               ELSE The({ removeItems(Tail(itemsToRemove), left)
                          : left \in { NonEmptySlots(r.copyOfSlots) } })
               : r \in { internalRemoveCraftingRecipeItem(Head(itemsToRemove),
                                                          thisSlots, << >>) } })

\* for (const item of itemsToAdd) this.inventoryController.addItem(item):
\* the items added before one does not fit stay in the inventory
RECURSIVE addItems(_, _, _)
addItems(this, itemsToAdd, thisSlots) ==
    IF itemsToAdd = << >> THEN [ error |-> NoError, slots |-> thisSlots ]
    ELSE The({ IF r.error # NoError THEN [ error |-> r.error, slots |-> thisSlots ]
               ELSE addItems(this, Tail(itemsToAdd), r.slots)
               : r \in { pickUpItemInternal(this, Head(itemsToAdd), thisSlots) } })

\* constructBuilding({ location }) on the controller c: the controller
\* after the call and the error thrown
constructBuilding(c, location) ==
    The({ The({ The({ The({
        IF req.error # NoError
        THEN [ c EXCEPT !.error = req.error, !.rng = req.rng ]
        ELSE IF removed.error # NoError
        THEN [ c EXCEPT !.error = removed.error, !.rng = diff.rng,
                        !.slots = removed.slots ]
        ELSE IF added.error # NoError
        THEN [ c EXCEPT !.error = added.error, !.rng = diff.rng,
                        !.slots = added.slots ]
        ELSE [ c EXCEPT !.error = NoError, !.rng = diff.rng,
                        !.slots = added.slots,
                        !.houses = withoutIds(c.houses, req.housesToRemove)
                                       \o req.housesToAdd,
                        !.floors = withoutIds(c.floors, req.floorsToRemove)
                                       \o req.floorsToAdd,
                        !.walls = withoutIds(c.walls, req.wallsToRemove)
                                      \o req.wallsToAdd ]
        : added \in { addItems(c.holder, diff.itemsToAdd, removed.slots) } })
        : removed \in { removeItems(diff.itemsToRemove, c.slots) } })
        : diff \in { determineConstructionMaterialsDifference(
                         c.holder, req.wallsToAdd, req.wallsToRemove, req.rng) } })
        : req \in { determineBuildingRequirements(c.holder, location, c.houses,
                                                  c.floors, c.walls, c.rng) } })

\* getState(): the holder with its inventory and crafting state, the houses,
\* the floors and the walls
getStateOf(c) ==
    [ inventoryHolder |-> [ id |-> c.holder.id, slots |-> c.slots,
                            craftingState |-> c.rng ],
      houses |-> c.houses,
      floors |-> c.floors,
      walls  |-> c.walls ]

\* the locations of the calls: a row of four tiles and a column of four,
\* and the tile that makes a square of 2 x 2 with the first of them
Locations ==
    { [ x |-> x, y |-> 0 ] : x \in { 0, 200, 400, 600 } }
        \cup { [ x |-> 0, y |-> y ] : y \in { 200, 400, 600 } }
        \cup { [ x |-> 200, y |-> 200 ] }

\* the inventory of the tests: n times createItemType(WATTLE_WALL) and
\* addItem, which leaves stacks of four
wattleWalls(this, n) ==
    The({ addItems(this, items, << >>).slots
          : items \in { [ i \in 1 .. n |-> createItemType(this, "WATTLE_WALL", i - 1) ] } })

\* new ConstructionController({ inventoryHolder, houses: [], floors: [],
\* walls: [] }) for a person who made n WATTLE_WALL, with what is recorded
\* of the calls: the last location and error, getState() before the last
\* call, the tiles constructed so far and how many were constructed again
NewConstruction(this, n) ==
    [ kind     |-> "construction",
      holder   |-> this,
      houses   |-> << >>,
      floors   |-> << >>,
      walls    |-> << >>,
      slots    |-> wattleWalls(this, n),
      rng      |-> n,
      error    |-> NoError,
      location |-> << >>,
      before   |-> << >>,
      calls    |-> 0,
      built    |-> << >>,
      clean    |-> TRUE,
      pass     |-> "first",
      redone   |-> 0,
      allAgain |-> TRUE,
      wattle   |-> n ]

\* a person who built a house of two tiles with seven WATTLE_WALL, and now
\* carries ten sticks and three WATTLE_WALL in an inventory of two slots
TwoTileHouse ==
    LET this == Builder(2)
    IN  The({ The({ The({
        [ built EXCEPT
            !.holder = this,
            !.slots = << [ createItemType(this, "STICK", built.rng) EXCEPT !.amount = 10 ],
                         [ createItemType(this, "WATTLE_WALL", built.rng + 1) EXCEPT
                             !.amount = 3 ] >>,
            !.rng = built.rng + 2,
            !.clean = FALSE,
            !.wattle = 3 ]
        : built \in { constructBuilding(first, [ x |-> 200, y |-> 0 ]) } })
        : first \in { constructBuilding(new, [ x |-> 0, y |-> 0 ]) } })
        : new \in { NewConstruction(Builder(10), 7) } })

\* the numbers of WATTLE_WALL of the person who starts with no building
InitialWattleWalls == { 0, 9, 16 }

Construction == building[1]

ConstructionInit ==
    /\ NoInventory
    /\ NoCell
    /\ harvest = NoHarvest
    /\ walk = NoWalk
    /\ \E c \in { NewConstruction(Builder(10), n) : n \in InitialWattleWalls }
                    \cup { TwoTileHouse } :
          building = << c >>

isConstruction == Construction.kind = "construction"

\* what is recorded of a call at `location' that turned c into next
Called(c, next, location) ==
    [ next EXCEPT !.location = << location >>,
                  !.before = << getStateOf(c) >> ]

\* constructBuilding({ location }), in the first pass over the tiles
ConstructBuilding(location) ==
    /\ isConstruction
    /\ Construction.pass = "first"
    /\ Construction.calls < MaxConstructions
    /\ \E c \in { Construction } :
       \E next \in { constructBuilding(c, location) } :
       \E isNew \in { c.clean /\ next.error = NoError
                              /\ tilesAt(c.floors, location.x, location.y) = << >> } :
          building' = << [ Called(c, next, location) EXCEPT
                             !.calls = @ + 1,
                             !.clean = isNew,
                             !.built = IF isNew THEN Append(@, location) ELSE << >> ] >>
    /\ UNCHANGED << inventoryVars, cellVars, resourceVars, pathVars >>

\* constructBuilding once more on the next of the tiles of the first pass,
\* in the order in which they were constructed
ConstructAgain ==
    /\ isConstruction
    /\ Construction.clean
    /\ Construction.redone < Len(Construction.built)
    /\ \E c \in { Construction } :
       \E location \in { c.built[c.redone + 1] } :
       \E next \in { constructBuilding(c, location) } :
          building' = << [ Called(c, next, location) EXCEPT
                             !.pass = "again",
                             !.redone = @ + 1,
                             !.allAgain = @ /\ next.error = NoError ] >>
    /\ UNCHANGED << inventoryVars, cellVars, resourceVars, pathVars >>

(***************************************************************************)
(* StockpileController (stockpile.ts).  constructStockpile(location) adds  *)
(* the stockpile tile at the location, or removes it when there is one; a  *)
(* stockpile is an inventory whose rows follow the number of its tiles.    *)
(***************************************************************************)
NUMBER_OF_ROWS_PER_STOCKPILE_TILE == 1
NUMBER_OF_COLUMNS_PER_STOCKPILE_TILE == 10

CannotConnectStockpiles == "Cannot connect two separate stockpiles"
StockpileTooLongEastToWest == "Stockpile is too long east to west"
StockpileTooLongNorthToSouth == "Stockpile is too long north to south"
StockpileTileInUse == "Cannot remove stockpile tile, please remove items in inventory first"

\* StockpileController.getStockpileId(location)
getStockpileId(location) == << "stockpile", location.x, location.y >>

\* createNewStockpile(stockpileId, location)
createNewStockpile(person, stockpileId, location) ==
    [ id        |-> stockpileId,
      ownerId   |-> person.id,
      x         |-> location.x,
      y         |-> location.y,
      inventory |-> [ rows    |-> NUMBER_OF_ROWS_PER_STOCKPILE_TILE,
                      columns |-> NUMBER_OF_COLUMNS_PER_STOCKPILE_TILE,
                      slots   |-> << >> ] ]

\* createNewStockpileTile(stockpileId, location)
createNewStockpileTile(person, stockpileId, location, stockpileIndex) ==
    [ id             |-> << "stockpileTile", location.x, location.y >>,
      ownerId        |-> person.id,
      stockpileId    |-> stockpileId,
      x              |-> location.x,
      y              |-> location.y,
      stockpileIndex |-> stockpileIndex ]

\* checkNeighboringStockpileTiles(stockpileTiles, location)
checkNeighboringStockpileTiles(stockpileTiles, location) ==
    LET neighbors == neighborTiles(stockpileTiles, location)
    IN  [ neighborStockpileIds |-> { neighbors[i].stockpileId : i \in DOMAIN neighbors } ]

\* the tiles of the stockpile without the one to remove: .length <= 1
fewTilesLeft(tilesLeft) == Len(tilesLeft) <= 1

\* tiles.map((tile, index) => ({ ...tile, stockpileIndex: index }))
reindexed(tiles) == [ i \in DOMAIN tiles |-> [ tiles[i] EXCEPT !.stockpileIndex = i - 1 ] ]

\* { ...stockpile, inventory: { ...stockpile.inventory, rows, columns } }
withRows(stockpile, rows) ==
    [ stockpile EXCEPT !.inventory.rows = rows,
                       !.inventory.columns = NUMBER_OF_COLUMNS_PER_STOCKPILE_TILE ]

\* stockpile.inventory.slots.length > maxSlots
overfull(stockpile) ==
    Len(stockpile.inventory.slots) > stockpile.inventory.rows * stockpile.inventory.columns

\* determineBuildingRequirements({ location, stockpiles, stockpileTiles })
determineStockpileRequirements(person, location, stockpiles, stockpileTiles) ==
    LET matchingFloorAtLocation == tilesAt(stockpileTiles, location.x, location.y)
        Requirements(error, stockpilesToAdd, tilesToAdd, stockpilesToModify, tilesToModify, stockpilesToRemove, tilesToRemove) ==
            [ error                  |-> error,
              stockpilesToAdd        |-> stockpilesToAdd,
              stockpileTilesToAdd    |-> tilesToAdd,
              stockpilesToModify     |-> stockpilesToModify,
              stockpileTilesToModify |-> tilesToModify,
              stockpilesToRemove     |-> stockpilesToRemove,
              stockpileTilesToRemove |-> tilesToRemove ]
    IN  IF matchingFloorAtLocation # << >>
        THEN LET stockpileId == matchingFloorAtLocation[1].stockpileId
                 InStockpile(tile) == tile.stockpileId = stockpileId
                 IsStockpile(stockpile) == stockpile.id = stockpileId
                 stockpileStockpileTiles == SelectSeq(stockpileTiles, InStockpile)
                 stockpileTilesToRemove == matchingFloorAtLocation
                 matching == SelectSeq(stockpiles, IsStockpile)
                 stockpilesToRemove ==
                     IF fewTilesLeft(withoutIds(stockpileStockpileTiles, stockpileTilesToRemove))
                     THEN [ i \in DOMAIN matching |-> withRows(matching[i], 0) ]
                     ELSE << >>
                 stockpileTilesToModify ==
                     reindexed(withoutIds(stockpileTiles, stockpileTilesToRemove))
                 kept == withoutIds(matching, stockpilesToRemove)
                 stockpilesToModify ==
                     [ i \in DOMAIN kept |->
                         withRows(kept[i],
                                  Len(SelectSeq(stockpileTilesToModify, InStockpile))
                                      * NUMBER_OF_ROWS_PER_STOCKPILE_TILE) ]
                 checked == stockpilesToModify \o stockpilesToRemove
             IN  Requirements(IF \E i \in DOMAIN checked : overfull(checked[i])
                              THEN StockpileTileInUse ELSE NoError,
                              << >>, << >>, stockpilesToModify, stockpileTilesToModify,
                              stockpilesToRemove, stockpileTilesToRemove)
        ELSE LET nearbyStockpileIds ==
                     checkNeighboringStockpileTiles(stockpileTiles, location).neighborStockpileIds
                 stockpileId == IF nearbyStockpileIds = { } THEN getStockpileId(location)
                                ELSE CHOOSE id \in nearbyStockpileIds : TRUE
                 stockpilesToAdd ==
                     IF nearbyStockpileIds = { }
                     THEN << createNewStockpile(person, stockpileId, location) >>
                     ELSE << >>
                 newStockpileTile ==
                     createNewStockpileTile(person, stockpileId, location, Len(stockpileTiles))
                 InStockpile(tile) == tile.stockpileId = stockpileId
                 IsStockpile(stockpile) == stockpile.id = stockpileId
                 stockpileStockpileTiles ==
                     SelectSeq(Append(stockpileTiles, newStockpileTile), InStockpile)
                 stockpileTilesToModify == reindexed(stockpileTiles)
                 matching == SelectSeq(stockpiles, IsStockpile)
                 stockpilesToModify ==
                     [ i \in DOMAIN matching |->
                         withRows(matching[i],
                                  (Len(SelectSeq(stockpileTilesToModify, InStockpile)) + 1)
                                      * NUMBER_OF_ROWS_PER_STOCKPILE_TILE) ]
                 error ==
                     IF separate(nearbyStockpileIds) THEN CannotConnectStockpiles
                     ELSE IF tooLong({ stockpileStockpileTiles[i].x :
                                          i \in DOMAIN stockpileStockpileTiles }, 5)
                     THEN StockpileTooLongEastToWest
                     ELSE IF tooLong({ stockpileStockpileTiles[i].y :
                                          i \in DOMAIN stockpileStockpileTiles }, 5)
                     THEN StockpileTooLongNorthToSouth
                     ELSE NoError
             IN  Requirements(error, stockpilesToAdd, << newStockpileTile >>,
                              stockpilesToModify, stockpileTilesToModify, << >>, << >>)

\* updateLocalCopy(arr, toModify, toAdd, toRemove)
updateLocalCopy(arr, toModify, toAdd, toRemove) ==
    withoutIds(arr, toModify \o toAdd \o toRemove) \o toModify \o toAdd

\* constructStockpile({ location }) on the controller c
constructStockpile(c, location) ==
    LET req == determineStockpileRequirements(c.person, location, c.stockpiles,
                                              c.stockpileTiles)
    IN  IF req.error # NoError THEN [ c EXCEPT !.error = req.error ]
        ELSE [ c EXCEPT
                 !.error = NoError,
                 !.stockpiles = updateLocalCopy(c.stockpiles, req.stockpilesToModify,
                                                req.stockpilesToAdd, req.stockpilesToRemove),
                 !.stockpileTiles = updateLocalCopy(c.stockpileTiles,
                                                    req.stockpileTilesToModify,
                                                    req.stockpileTilesToAdd,
                                                    req.stockpileTilesToRemove) ]

\* getState() of the stockpile controller
getStockpileStateOf(c) ==
    [ stockpiles |-> c.stockpiles, stockpileTiles |-> c.stockpileTiles ]

\* new StockpileController({ person, stockpiles: [], stockpileTiles: [] }),
\* with what is recorded of the calls
NewStockpiles ==
    [ kind           |-> "stockpile",
      person         |-> Builder(10),
      stockpiles     |-> << >>,
      stockpileTiles |-> << >>,
      error          |-> NoError,
      location       |-> << >>,
      before         |-> << >>,
      calls          |-> 0,
      allOk          |-> TRUE ]

\* the controller after constructStockpile at each of the locations
RECURSIVE constructedAt(_, _)
constructedAt(c, locations) ==
    IF locations = << >> THEN c
    ELSE constructedAt(constructStockpile(c, Head(locations)), Tail(locations))

\* the stockpiles there are to start with: none, a row of four tiles, a
\* column of four tiles
InitialStockpiles ==
    { NewStockpiles,
      constructedAt(NewStockpiles, [ i \in 1 .. 4 |-> [ x |-> 200 * (i - 1), y |-> 0 ] ]),
      constructedAt(NewStockpiles, [ i \in 1 .. 4 |-> [ x |-> 0, y |-> 200 * (i - 1) ] ]) }

\* the locations of the constructStockpile calls
StockpileLocations ==
    { [ x |-> x, y |-> 0 ] : x \in { 0, 200, 400, 800, 1000 } }
        \cup { [ x |-> 0, y |-> y ] : y \in { 800, 1000 } }

StockpileInit ==
    /\ NoInventory
    /\ NoCell
    /\ harvest = NoHarvest
    /\ walk = NoWalk
    /\ \E c \in InitialStockpiles : building = << c >>

isStockpile == Construction.kind = "stockpile"

\* constructStockpile({ location })
ConstructStockpile(location) ==
    /\ isStockpile
    /\ Construction.calls < MaxConstructions
    /\ \E c \in { Construction } :
       \E next \in { constructStockpile(c, location) } :
          building' = << [ next EXCEPT !.location = << location >>,
                                       !.before = << getStockpileStateOf(c) >>,
                                       !.calls = @ + 1,
                                       !.allOk = @ /\ next.error = NoError ] >>
    /\ UNCHANGED << inventoryVars, cellVars, resourceVars, pathVars >>

\* n full stacks of sticks
sticks(n) ==
    [ i \in 1 .. n |-> [ id |-> << "object", i >>, objectType |-> "STICK", amount |-> 10 ] ]

\* between two calls an item is put into a stockpile that is empty, or the
\* item of a stockpile is taken out
\* (stockpiles[0].inventory = inventoryController.getInventory()), and a
\* new controller is made of the stockpiles and the tiles
StoreItems(index) ==
    /\ isStockpile
    /\ index \in DOMAIN Construction.stockpiles
    /\ \E inventory \in { Construction.stockpiles[index].inventory } :
       \E n \in { 1 - Len(inventory.slots) } :
          /\ n <= inventory.rows * inventory.columns
          /\ building' = << [ Construction EXCEPT
                                !.stockpiles[index].inventory.slots = sticks(n),
                                !.error = NoError,
                                !.location = << >>,
                                !.before = << >> ] >>
    /\ UNCHANGED << inventoryVars, cellVars, resourceVars, pathVars >>

BuildNext ==
    \/ \E location \in Locations : ConstructBuilding(location)
    \/ ConstructAgain
    \/ \E location \in StockpileLocations : ConstructStockpile(location)
    \/ \E index \in 1 .. 2 : StoreItems(index)

\* a construction controller or a stockpile controller and its calls
BuildSpec == (ConstructionInit \/ StockpileInit) /\ [][BuildNext]_vars

\* every tile of the first pass was called once more
allRedone ==
    /\ isConstruction
    /\ Construction.pass = "again"
    /\ Construction.redone = Len(Construction.built)

\* no house, no floor, no wall, and the WATTLE_WALL of the start
backToStart ==
    /\ Construction.houses = << >>
    /\ Construction.floors = << >>
    /\ Construction.walls = << >>
    /\ TotalOfType(Construction.slots, "WATTLE_WALL") = Construction.wattle

C24_FailureLeavesState ==
    isConstruction /\ Construction.error # NoError =>
        getStateOf(Construction) = Construction.before[1]

\* C25: after constructStockpile calls that all succeeded, every stockpile
\* tile belongs to a stockpile of the controller, and every stockpile has
\* one row of ten columns for each of its tiles
C25_TilesAndRowsAgree ==
    isStockpile /\ Construction.allOk =>
        /\ \A i \in DOMAIN Construction.stockpileTiles :
              \E j \in DOMAIN Construction.stockpiles :
                  Construction.stockpiles[j].id = Construction.stockpileTiles[i].stockpileId
        /\ \A j \in DOMAIN Construction.stockpiles :
              LET OfPile(tile) == tile.stockpileId = Construction.stockpiles[j].id
              IN  /\ Construction.stockpiles[j].inventory.rows
                        = Len(SelectSeq(Construction.stockpileTiles, OfPile))
                              * NUMBER_OF_ROWS_PER_STOCKPILE_TILE
                  /\ Construction.stockpiles[j].inventory.columns
                        = NUMBER_OF_COLUMNS_PER_STOCKPILE_TILE

\* the last call was made where a tile of a stockpile of the controller was
lastRemoval ==
    /\ isStockpile
    /\ Construction.location # << >>
    /\ tilesAt(Construction.before[1].stockpileTiles,
               Construction.location[1].x, Construction.location[1].y) # << >>
    /\ \E j \in DOMAIN Construction.before[1].stockpiles :
          Construction.before[1].stockpiles[j].id
              = tilesAt(Construction.before[1].stockpileTiles,
                        Construction.location[1].x,
                        Construction.location[1].y)[1].stockpileId

\* the stockpile of the tile of the last call, before the call
removedFrom ==
    LET tile == tilesAt(Construction.before[1].stockpileTiles,
                        Construction.location[1].x, Construction.location[1].y)[1]
        j == CHOOSE j \in DOMAIN Construction.before[1].stockpiles :
                 Construction.before[1].stockpiles[j].id = tile.stockpileId
    IN  Construction.before[1].stockpiles[j]

\* the number of slots its other tiles provide
remainingCapacity ==
    LET OfPile(tile) == tile.stockpileId = removedFrom.id
    IN  (Len(SelectSeq(Construction.before[1].stockpileTiles, OfPile)) - 1)
            * NUMBER_OF_ROWS_PER_STOCKPILE_TILE * NUMBER_OF_COLUMNS_PER_STOCKPILE_TILE

\* C26: the removal of a stockpile tile fails with 'Cannot remove stockpile
\* tile, please remove items in inventory first' exactly when the stockpile
\* has more slots in use than its remaining tiles provide, and a removal
\* that fails leaves the stockpiles and the tiles as they were
C26_RemovalFailsWhenOverCapacity ==
    lastRemoval =>
        /\ Construction.error = StockpileTileInUse
              <=> Len(removedFrom.inventory.slots) > remainingCapacity
        /\ Construction.error # NoError =>
              getStockpileStateOf(Construction) = Construction.before[1]

\* the tiles lie within n tiles of each other, east to west and north to
\* south
within(tiles, n) ==
    \A i, j \in DOMAIN tiles :
        /\ tiles[i].x - tiles[j].x <= (n - 1) * 200
        /\ tiles[i].y - tiles[j].y <= (n - 1) * 200

\* the floors of a house
floorsOf(floors, houseId) ==
    LET InHouse(floor) == floor.houseId = houseId IN SelectSeq(floors, InHouse)

\* the tiles of a stockpile
tilesOf(stockpileTiles, stockpileId) ==
    LET OfPile(tile) == tile.stockpileId = stockpileId
    IN  SelectSeq(stockpileTiles, OfPile)

\* the last call was made where no floor was, next to the floors of one
\* house only
lastJoinsHouse ==
    /\ isConstruction
    /\ Construction.location # << >>
    /\ tilesAt(Construction.before[1].floors,
               Construction.location[1].x, Construction.location[1].y) = << >>
    /\ \E i \in DOMAIN neighborTiles(Construction.before[1].floors, Construction.location[1]) :
       \A j \in DOMAIN neighborTiles(Construction.before[1].floors, Construction.location[1]) :
           neighborTiles(Construction.before[1].floors, Construction.location[1])[i].houseId
               = neighborTiles(Construction.before[1].floors, Construction.location[1])[j].houseId

\* the floors of that house, before the call
joinedFloors ==
    floorsOf(Construction.before[1].floors,
             neighborTiles(Construction.before[1].floors,
                           Construction.location[1])[1].houseId)

\* the last call was made where no stockpile tile was, next to the tiles of
\* one stockpile at most
lastJoinsStockpile ==
    /\ isStockpile
    /\ Construction.location # << >>
    /\ tilesAt(Construction.before[1].stockpileTiles,
               Construction.location[1].x, Construction.location[1].y) = << >>
    /\ \A i, j \in DOMAIN neighborTiles(Construction.before[1].stockpileTiles,
                                        Construction.location[1]) :
           neighborTiles(Construction.before[1].stockpileTiles,
                         Construction.location[1])[i].stockpileId
               = neighborTiles(Construction.before[1].stockpileTiles,
                               Construction.location[1])[j].stockpileId

\* the tiles of the stockpile that the new tile joins, before the call
joinedTiles ==
    LET neighbors == neighborTiles(Construction.before[1].stockpileTiles,
                                   Construction.location[1])
    IN  tilesOf(Construction.before[1].stockpileTiles,
                IF neighbors = << >> THEN getStockpileId(Construction.location[1])
                ELSE neighbors[1].stockpileId)

\* the error of a new tile that lies further than n tiles from one of the
\* tiles it joins, east to west first
errorBeyond(tiles, location, n, eastToWest, northToSouth) ==
    IF \E i \in DOMAIN tiles : \/ tiles[i].x - location.x > (n - 1) * 200
                               \/ location.x - tiles[i].x > (n - 1) * 200
    THEN eastToWest
    ELSE IF \E i \in DOMAIN tiles : \/ tiles[i].y - location.y > (n - 1) * 200
                                    \/ location.y - tiles[i].y > (n - 1) * 200
    THEN northToSouth
    ELSE NoError

\* C27: the floors of a house span at most 3 tiles east to west and 3 tiles
\* north to south, the tiles of a stockpile at most 5 by 5; a call that
\* would add a tile beyond that fails with 'House is too long east to west'
\* or 'House is too long north to south' ('Stockpile is too long ...' for a
\* stockpile), and a call that fails so adds nothing
C27_BuildingsStayShort ==
    /\ isConstruction =>
          /\ \A i \in DOMAIN Construction.floors :
                within(floorsOf(Construction.floors, Construction.floors[i].houseId), 3)
          /\ lastJoinsHouse =>
                \/ Construction.error
                       = errorBeyond(joinedFloors, Construction.location[1], 3,
                                     HouseTooLongEastToWest, HouseTooLongNorthToSouth)
                \/ /\ Construction.error
                          \notin { HouseTooLongEastToWest, HouseTooLongNorthToSouth }
                   /\ errorBeyond(joinedFloors, Construction.location[1], 3,
                                  HouseTooLongEastToWest, HouseTooLongNorthToSouth) = NoError
          /\ Construction.error \in { HouseTooLongEastToWest, HouseTooLongNorthToSouth } =>
                /\ lastJoinsHouse
                /\ Construction.houses = Construction.before[1].houses
                /\ Construction.floors = Construction.before[1].floors
                /\ Construction.walls = Construction.before[1].walls
    /\ isStockpile =>
          /\ \A i \in DOMAIN Construction.stockpileTiles :
                within(tilesOf(Construction.stockpileTiles,
                               Construction.stockpileTiles[i].stockpileId), 5)
          /\ lastJoinsStockpile =>
                Construction.error
                    = errorBeyond(joinedTiles, Construction.location[1], 5,
                                  StockpileTooLongEastToWest, StockpileTooLongNorthToSouth)
          /\ Construction.error
                 \in { StockpileTooLongEastToWest, StockpileTooLongNorthToSouth } =>
                /\ lastJoinsStockpile
                /\ getStockpileStateOf(Construction) = Construction.before[1]

\* a fourth floor east of a house of three was refused
C27_Witness ==
    /\ isConstruction
    /\ Construction.error = HouseTooLongEastToWest
    /\ Len(Construction.floors) = 3
    /\ Construction.location = << [ x |-> 600, y |-> 0 ] >>

\* the last call was made where no tile was, next to tiles of two houses
\* (of two stockpiles) or more
lastTouchesTwo ==
    /\ Construction.location # << >>
    /\ IF isConstruction
       THEN /\ tilesAt(Construction.before[1].floors,
                       Construction.location[1].x, Construction.location[1].y) = << >>
            /\ \E i, j \in DOMAIN neighborTiles(Construction.before[1].floors,
                                                Construction.location[1]) :
                   neighborTiles(Construction.before[1].floors,
                                 Construction.location[1])[i].houseId
                       # neighborTiles(Construction.before[1].floors,
                                       Construction.location[1])[j].houseId
       ELSE /\ tilesAt(Construction.before[1].stockpileTiles,
                       Construction.location[1].x, Construction.location[1].y) = << >>
            /\ \E i, j \in DOMAIN neighborTiles(Construction.before[1].stockpileTiles,
                                                Construction.location[1]) :
                   neighborTiles(Construction.before[1].stockpileTiles,
                                 Construction.location[1])[i].stockpileId
                       # neighborTiles(Construction.before[1].stockpileTiles,
                                       Construction.location[1])[j].stockpileId

\* C28: a call that adds a tile whose neighbours to the west, east, north
\* and south belong to two houses or more fails with 'Cannot connect two
\* separate buildings' (two stockpiles or more: 'Cannot connect two
\* separate stockpiles') and leaves the houses, the floors and the walls
\* (the stockpiles and the tiles) as they were; no other call fails so
C28_TwoBuildingsAreNotConnected ==
    /\ isConstruction =>
          /\ lastTouchesTwo <=> Construction.error = CannotConnectBuildings
          /\ lastTouchesTwo =>
                /\ Construction.houses = Construction.before[1].houses
                /\ Construction.floors = Construction.before[1].floors
                /\ Construction.walls = Construction.before[1].walls
    /\ isStockpile =>
          /\ lastTouchesTwo <=> Construction.error = CannotConnectStockpiles
          /\ lastTouchesTwo =>
                getStockpileStateOf(Construction) = Construction.before[1]

\* a floor between two houses of one floor each was refused
C28_Witness ==
    /\ isConstruction
    /\ Construction.error = CannotConnectBuildings
    /\ Len(Construction.houses) = 2
    /\ Construction.location = << [ x |-> 200, y |-> 0 ] >>

\* ---- applyPathToNpc ----

\* the number of points of a path, and the last millisecond of the clock
MaxPathPoints == 3
MaxPathTime == 4

RECURSIVE gcd(_, _)
gcd(a, b) == IF b = 0 THEN a ELSE gcd(b, a % b)

\* a coordinate is a double: written here as the fraction n / d in lowest
\* terms that the double is nearest to
Fraction(n, d) == [ n |-> n \div gcd(n, d), d |-> d \div gcd(n, d) ]

\* a path that has started at its first point already
started_AtFirstPoint(now, firstTime) == now >= firstTime

\* +now > Date.parse(firstPoint.time)
started(now, firstTime) == now > firstTime

\* applyInventoryState(npc): the inventory states up to now are applied to
\* the inventory and the list is emptied; the position and the path stay
applyInventoryState(npc) == [ npc EXCEPT !.inventoryState = << >> ]

\* internalApplyPathToNpc(npc), called at the time `now'
internalApplyPathToNpc(npc, now) ==
    LET unmoved == [ x |-> Fraction(npc.x, 1), y |-> Fraction(npc.y, 1),
                     path |-> npc.path, inventoryState |-> npc.inventoryState ]
    IN  IF npc.path # << >> /\ started(now, npc.path[1].time)
        THEN LET indexOfPointB ==
                     FindIndex([ i \in DOMAIN npc.path |-> npc.path[i].time > now ])
             IN  IF indexOfPointB >= 1
                 THEN IF indexOfPointB - 1 >= 1
                      THEN LET a == npc.path[indexOfPointB - 1]
                               b == npc.path[indexOfPointB]
                               dx == b.location.x - a.location.x
                               dy == b.location.y - a.location.y
                               dt == b.time - a.time
                           IN  [ x |-> Fraction(a.location.x * dt + dx * (now - a.time), dt),
                                 y |-> Fraction(a.location.y * dt + dy * (now - a.time), dt),
                                 path |-> << >>,
                                 inventoryState |-> npc.inventoryState ]
                      ELSE unmoved
                 ELSE LET lastPoint == npc.path[Len(npc.path)]
                      IN  [ x |-> Fraction(lastPoint.location.x, 1),
                            y |-> Fraction(lastPoint.location.y, 1),
                            path |-> << >>,
                            inventoryState |-> npc.inventoryState ]
        ELSE unmoved

\* applyPathToNpc(npc)
applyPathToNpc(npc, now) == internalApplyPathToNpc(applyInventoryState(npc), now)

\* the points of the paths: three places at the milliseconds of the clock
PathPoints ==
    [ time : 0 .. MaxPathTime,
      location : { [ x |-> 0, y |-> 0 ], [ x |-> 1000, y |-> 0 ],
                   [ x |-> 500, y |-> 200 ] } ]

\* the paths: the time never goes back, and two points of one time are one
\* place (the end of a walk and the start of the next)
Paths ==
    UNION { { path \in [ 1 .. k -> PathPoints ] :
                \A j \in 1 .. (k - 1) :
                    \/ path[j].time < path[j + 1].time
                    \/ /\ path[j].time = path[j + 1].time
                       /\ path[j].location = path[j + 1].location } :
            k \in 0 .. MaxPathPoints }

\* the NPCs: createNpc of the tests, at (0, 0) or elsewhere, with a path
WalkingNpcs ==
    [ x : { 0, 300 }, y : { 0, 100 }, path : Paths, inventoryState : { << >> } ]

Walk == walk[1]

PathInit ==
    /\ NoInventory
    /\ NoCell
    /\ harvest = NoHarvest
    /\ building = NoBuilding
    /\ \E npc \in WalkingNpcs :
          walk = << [ npc |-> npc, now |-> << >>, returned |-> << >> ] >>

\* applyPathToNpc(npc) when new Date() is `now'; the clock does not go back
ApplyPathToNpc(now) ==
    /\ walk # NoWalk
    /\ IF Walk.now = << >> THEN TRUE ELSE now >= Walk.now[1]
    /\ walk' = << [ Walk EXCEPT !.now = << now >>,
                                !.returned = << applyPathToNpc(Walk.npc, now) >> ] >>
    /\ UNCHANGED << inventoryVars, cellVars, resourceVars, constructionVars >>

PathNext == \E now \in 0 .. (MaxPathTime + 1) : ApplyPathToNpc(now)

PathSpec == PathInit /\ [][PathNext]_vars

\* the position lies on the line from a to b where the time `now' puts it
interpolated(position, a, b, now) ==
    /\ position.x.n * (b.time - a.time)
           = position.x.d * (a.location.x * (b.time - a.time)
                                 + (b.location.x - a.location.x) * (now - a.time))
    /\ position.y.n * (b.time - a.time)
           = position.y.d * (a.location.y * (b.time - a.time)
                                 + (b.location.y - a.location.y) * (now - a.time))

\* the position is the place (x, y)
positionIs(position, x, y) ==
    /\ position.x.n = x * position.x.d
    /\ position.y.n = y * position.y.d

\* applyPathToNpc was called for an NPC that has a path
pathApplied == walk # NoWalk /\ Walk.now # << >> /\ Walk.npc.path # << >>

\* C29: applyPathToNpc at the time now returns the NPC where it was when now
\* is not after the time of the first path point, at the last path point
\* when now is after the time of the last one, and in between on the line
\* between the two path points around now, as far along as now is in time
C29_PathIsInterpolated ==
    pathApplied =>
        LET path == Walk.npc.path
            now == Walk.now[1]
            position == Walk.returned[1]
        IN  /\ now <= path[1].time =>
                  positionIs(position, Walk.npc.x, Walk.npc.y)
            /\ now > path[Len(path)].time =>
                  positionIs(position, path[Len(path)].location.x,
                             path[Len(path)].location.y)
            /\ path[1].time < now /\ now <= path[Len(path)].time =>
                  \E i \in 1 .. (Len(path) - 1) :
                      /\ path[i].time <= now
                      /\ now <= path[i + 1].time
                      /\ path[i].time < path[i + 1].time
                      /\ interpolated(position, path[i], path[i + 1], now)

\* an NPC away from its path of three points was asked for between the
\* first two, a third of the way or two thirds
C29_Witness ==
    /\ pathApplied
    /\ Len(Walk.npc.path) = 3
    /\ Walk.npc.x = 300
    /\ Walk.npc.path[1].time < Walk.now[1]
    /\ Walk.now[1] < Walk.npc.path[2].time
    /\ Walk.returned[1].x.d = 3

\* the place of an NPC id in the lexicographic order of the ids
idOrder(id) == CHOOSE i \in DOMAIN NpcNames : NpcNames[i] = id

\* the NPC that the next iteration of run() dispatches
dispatched == SortedCell.state.npcs[firstEventIndex]

\* C30: of the NPCs that are ready at the same simulated time with the same
\* readyTime, the planner dispatches the one whose id is first in
\* lexicographic order, whatever the order of the NPCs in the input is
C30_TiesGoByNpcId ==
    Running /\ firstEventIndex # 0 =>
        \A j \in DOMAIN state.npcs :
            /\ isNpcReady(Cell, state.npcs[j].data)
            /\ state.npcs[j].readyTime = dispatched.readyTime
            => idOrder(dispatched.data.id) <= idOrder(state.npcs[j].data.id)

\* the events of an id in one of the event maps of the state
listAt(events, id) == IF id \in DOMAIN events THEN events[id] ELSE << >>

\* the events of an id that are in `after' and were not in `before'
newEvents(events, after, id) ==
    SubSeq(listAt(after, id), Len(listAt(events, id)) + 1, Len(listAt(after, id)))

\* the iteration harvests the resource: the NPC that was dispatched at the
\* time t walks d = 10 ms a pixel of Manhattan distance, harvests at
\* t + d + WAIT_TIME_AFTER_WALKING and picks up WAIT_TIME_AFTER_PICK_UP later
harvestTimes(resource) ==
    LET npc == dispatched.data
        harvestedTime == currentMilliseconds + 10 * distance(npc, resource)
                       + WAIT_TIME_AFTER_WALKING
        pickUpTime == harvestedTime + WAIT_TIME_AFTER_PICK_UP
        resourceEvents == newEvents(state.resourceEvents, state'.resourceEvents,
                                    resource.id)
        spawned == state'.spawns[Len(state'.spawns)]
        inventoryEvents == newEvents(state.npcInventoryEvents,
                                     state'.npcInventoryEvents, npc.id)
    IN  /\ Len(resourceEvents) = 2
        /\ resourceEvents[1].time = harvestedTime
        /\ resourceEvents[1].state.depleted
        /\ ~resourceEvents[2].state.depleted
        /\ \E k \in DOMAIN resource.spawns, q \in RngQuick :
              resourceEvents[2].time = harvestedTime + spawn(resource, k, q).respawnTime
        /\ Len(state'.spawns) = Len(state.spawns) + 1
        /\ spawned.time = harvestedTime
        /\ \A id \in DOMAIN state'.networkObjectEvents :
           \A j \in DOMAIN newEvents(state.networkObjectEvents,
                                     state'.networkObjectEvents, id) :
              LET event == newEvents(state.networkObjectEvents,
                                     state'.networkObjectEvents, id)[j]
              IN  IF id = spawned.spawn.id /\ j = 1 /\ listAt(state.networkObjectEvents, id) = << >>
                  THEN event.time = harvestedTime /\ event.state.time = harvestedTime
                           /\ event.state.state = [ exist |-> TRUE ]
                  ELSE event.time = pickUpTime /\ event.state.time = pickUpTime
        /\ newEvents(state.networkObjectEvents, state'.networkObjectEvents,
                     spawned.spawn.id) # << >>
        /\ Len(inventoryEvents) = 1
        /\ inventoryEvents[1].time = pickUpTime
        /\ inventoryEvents[1].state.time = pickUpTime
        /\ \E i \in DOMAIN state'.npcs :
              /\ state'.npcs[i].data.id = npc.id
              /\ state'.npcs[i].readyTime = pickUpTime
              /\ state'.npcs[i].data.readyTime = pickUpTime
              /\ state'.npcs[i].data.x = resource.x
              /\ state'.npcs[i].data.y = resource.y

\* C31: a Gather action dispatched at the time t with a walk of duration d
\* harvests at t + d + WAIT_TIME_AFTER_WALKING; the depletion of the node
\* and the exist event of the item are at the harvest time, the respawn of
\* the node at harvest + respawn delay, the pick-up events of the objects
\* and the inventory event of the NPC at harvest +
\* WAIT_TIME_AFTER_PICK_UP, which is the new readyTime of the NPC
C31_GatherTimes ==
    [][ thrown' = NoError /\ state'.resourceEvents # state.resourceEvents =>
            \E i \in DOMAIN state.resources : harvestTimes(state.resources[i]) ]_vars

\* an NPC has harvested a resource it had to walk to
C31_Witness ==
    /\ thrown = NoError
    /\ \E id \in DOMAIN state.resourceEvents :
          state.resourceEvents[id][1].time > WAIT_TIME_AFTER_WALKING
    /\ \E id \in DOMAIN state.npcInventoryEvents :
          state.npcInventoryEvents[id] # << >>

(***************************************************************************)
(* Resources that respawn within a run.                                    *)
(***************************************************************************)
\* a spawn table of resources that are ready again 2 s after a harvest
QuickSpawns ==
    << [ type |-> "STICK", probability |-> 95, spawnTime |-> 2000 ],
       [ type |-> "WOOD", probability |-> 5, spawnTime |-> 2000 ] >>

QuickCellInit ==
    CellSetupWith([ i \in 1 .. NumNpcs |-> i ], QuickSpawns,
                  { << InitialStockpile(amounts) >> : amounts \in StockpileAmounts },
                  << >>, << >>)

QuickCellSpec == QuickCellInit /\ [][CellNext]_vars

\* the events of a resource come in pairs, a harvest and its respawn
alternates(events) ==
    \A n \in DOMAIN events : events[n].state.depleted = (n % 2 = 1)

\* no event of a resource is earlier than the event before it
nonDecreasing(events) ==
    \A n \in DOMAIN events : n > 1 => events[n - 1].time <= events[n].time

\* C32: the state events of every resource alternate between depleted and
\* not depleted and are non-decreasing in time, so that every harvest of a
\* resource is at or after the respawn of its previous harvest
C32_ResourceEventsAlternate ==
    thrown = NoError =>
        \A id \in DOMAIN state.resourceEvents :
            /\ alternates(state.resourceEvents[id])
            /\ nonDecreasing(state.resourceEvents[id])

\* a resource has been harvested again after it respawned
C32_Witness ==
    /\ thrown = NoError
    /\ \E id \in DOMAIN state.resourceEvents :
          /\ Len(state.resourceEvents[id]) >= 4
          /\ state.resourceEvents[id][3].state.depleted
          /\ state.resourceEvents[id][3].time >= state.resourceEvents[id][2].time

(***************************************************************************)
(* The withdrawal of a crafter, between the clearing of its inventory and  *)
(* the crafting.                                                            *)
(***************************************************************************)
\* the recipe of the product a crafter of the cell may pick
pickedRecipe == listOfRecipes[1]

\* the NPC that is dispatched is a crafter that picks the product
craftDispatched ==
    /\ Running
    /\ firstEventIndex # 0
    /\ JobType = "CRAFT"
    /\ \E i \in DOMAIN dispatched.data.job.products :
          dispatched.data.job.products[i] = pickedRecipe.product

\* handleCraftJob up to the withdrawal: the inventory of the NPC is cleared
clearedInventory ==
    IF hasItemInInventory(dispatched.data)
    THEN findAndStoreInStockpile(SortedCell, firstEventIndex)
    ELSE [ foundStockpile |-> TRUE, cell |-> SortedCell ]

\* the number of recipes handleCraftJob withdraws for
amountWithdrawn == numRecipes(dispatched.data, pickedRecipe)

\* the withdrawal of handleCraftJob
withdrawal ==
    findAndWithdrawFromStockpile(clearedInventory.cell, firstEventIndex,
                                 pickedRecipe, amountWithdrawn)

\* the crafter withdraws from a stockpile
withdraws ==
    /\ craftDispatched
    /\ clearedInventory.foundStockpile
    /\ clearedInventory.cell.thrown = NoError
    /\ withdrawal.foundStockpile
    /\ withdrawal.cell.thrown = NoError

\* what the NPC holds of a type
heldByNpc(cell, objectType) ==
    TotalOfType(cell.state.npcs[firstEventIndex].data.inventory.slots, objectType)

\* what the stockpiles of the planner hold of a type
heldInStockpiles(cell, objectType) ==
    TotalOfType(Flatten([ n \in DOMAIN cell.state.stockpiles |->
                            cell.state.stockpiles[n].inventory.slots ]), objectType)

\* the NPC gains quantity * numRecipes of every input
npcGains ==
    \A i \in DOMAIN pickedRecipe.items :
        heldByNpc(withdrawal.cell, pickedRecipe.items[i].item)
            = heldByNpc(clearedInventory.cell, pickedRecipe.items[i].item)
                  + pickedRecipe.items[i].quantity * amountWithdrawn

\* the stockpile the planner keeps loses quantity * numRecipes of every input
stockpileLoses ==
    \A i \in DOMAIN pickedRecipe.items :
        heldInStockpiles(withdrawal.cell, pickedRecipe.items[i].item)
            = heldInStockpiles(clearedInventory.cell, pickedRecipe.items[i].item)
                  - pickedRecipe.items[i].quantity * amountWithdrawn

\* C33: when a crafter withdraws the inputs of numRecipes recipes, its
\* inventory gains quantity * numRecipes of every input and the stockpile
\* the planner keeps in memory loses as much, also when the quantity is
\* taken from several slots or in several withdraws of a stack
C33_WithdrawMovesTheInputs == withdraws => npcGains /\ stockpileLoses

(***************************************************************************)
(* A cell with two stockpiles, one nearer to the NPCs than the other.      *)
(***************************************************************************)
StockpileNames == << "stockpile0", "stockpile1" >>

\* the amounts of the STICK slots of the stockpiles: none, the inputs of one
\* recipe, and one more
FewAmounts == { << >>, << 10 >>, << 10, 1 >> }

\* stockpile k is 100 * k pixels east of the NPCs
StockpileAt(k, amounts) ==
    [ InitialStockpile(amounts) EXCEPT
          !.id = StockpileNames[k],
          !.x = 100 * k,
          !.inventory.slots =
              [ n \in DOMAIN amounts |->
                  InitialItem(10 * k + 10 + n, amounts[n], Null, StockpileNames[k]) ] ]

\* the two stockpiles, in either order
TwoStockpiles ==
    { << StockpileAt(order[1], amounts[order[1]]), StockpileAt(order[2], amounts[order[2]]) >> :
        order \in { << 1, 2 >>, << 2, 1 >> }, amounts \in [ 1 .. 2 -> FewAmounts ] }

TwoStockpilesInit ==
    CellSetupWith([ i \in 1 .. NumNpcs |-> i ], TreeSpawns, TwoStockpiles, << >>, << >>)

TwoStockpilesSpec == TwoStockpilesInit /\ [][CellNext]_vars

\* a stockpile holds the inputs of the recipes the NPC withdraws for
qualifies(stockpile) ==
    \A i \in DOMAIN pickedRecipe.items :
        TotalOfType(stockpile.inventory.slots, pickedRecipe.items[i].item)
            >= pickedRecipe.items[i].quantity * amountWithdrawn

\* the stockpiles that qualify when the withdrawal starts
qualifying ==
    { n \in DOMAIN clearedInventory.cell.state.stockpiles :
        qualifies(clearedInventory.cell.state.stockpiles[n]) }

\* the withdrawal has taken from the stockpile
withdrawnFrom(stockpile) ==
    newEvents(clearedInventory.cell.state.stockpileInventoryEvents,
              withdrawal.cell.state.stockpileInventoryEvents, stockpile.id) # << >>

\* no qualifying stockpile is nearer to the NPC
nearest(stockpile) ==
    \A n \in qualifying :
        distance(dispatched.data, stockpile)
            <= distance(dispatched.data, clearedInventory.cell.state.stockpiles[n])

\* C34: a crafter withdraws from the nearest of the stockpiles that hold at
\* least quantity * numRecipes of every input, and goes home without a
\* withdrawal only when no stockpile holds that much
C34_NearestSufficientStockpile ==
    craftDispatched /\ clearedInventory.foundStockpile
            /\ clearedInventory.cell.thrown = NoError =>
        /\ withdrawal.foundStockpile <=> qualifying # { }
        /\ \A n \in DOMAIN clearedInventory.cell.state.stockpiles :
              withdrawnFrom(clearedInventory.cell.state.stockpiles[n]) =>
                  n \in qualifying /\ nearest(clearedInventory.cell.state.stockpiles[n])

\* Math.ceil(a / b) for a >= 0 and b > 0
slotsFor(a, b) == (a + b - 1) \div b

\* the slots the inputs of n recipes take, a stack of a type to a slot
RECURSIVE inputSlots(_, _)
inputSlots(items, n) ==
    IF items = << >> THEN 0
    ELSE slotsFor(Head(items).quantity * n, getMaxStackSize(Head(items).item))
             + inputSlots(Tail(items), n)

\* the inputs of n recipes, and likewise their outputs, fit in the NPC
fitsInInventory(npc, recipe, n) ==
    /\ inputSlots(recipe.items, n) <= npc.inventory.rows * npc.inventory.columns
    /\ slotsFor(recipeAmount(recipe) * n, getMaxStackSize(recipe.product))
           <= npc.inventory.rows * npc.inventory.columns

homeBound ==
    /\ Running
    /\ firstEventIndex # 0
    /\ \/ JobType \notin { "GATHER", "CRAFT" }
       \/ /\ craftDispatched
          /\ ~hasItemInInventory(dispatched.data)
          /\ ~withdrawal.foundStockpile

\* the time the dispatched NPC arrives at a location, at 10 ms a pixel
arrival(location) == currentMilliseconds + 10 * distance(dispatched.data, location)

\* the step has sent the dispatched NPC to its own house, to be ready again
\* `wait' ms after its arrival; a crafter that picks a product without a
\* recipe is left as it is
sentHome(wait) ==
    LET npc == dispatched.data
        home == houses[npc.id]
        after == state'.npcs[firstEventIndex]
    IN  after.data # npc =>
            /\ home.npcId = npc.id
            /\ after.data.id = npc.id
            /\ after.data.x = home.x /\ after.data.y = home.y
            /\ after.data.path # << >>
            /\ after.data.path[Len(after.data.path)].location = [ x |-> home.x, y |-> home.y ]
            /\ after.data.path[Len(after.data.path)].time = arrival(home)
            /\ after.readyTime = arrival(home) + wait
            /\ after.data.readyTime = arrival(home) + wait

\* C36: an NPC with no actionable state walks to the house whose npcId is
\* its id, and its readyTime is set to the time it arrives there, the
\* dispatch time plus the duration of the walk
C36_ReadyOnArrival == [][ homeBound => sentHome(0) ]_vars

\* C36, amended: the readyTime is the arrival time plus the two waits
C36_ReadyAfterTheWaits ==
    [][ homeBound => sentHome(WAIT_TIME_AFTER_WALKING + WAIT_TIME_AFTER_PICK_UP) ]_vars

\* an NPC without a gathering or crafting job has walked to its house
C36_Witness ==
    /\ thrown = NoError
    /\ \E n \in DOMAIN state.npcs :
          /\ state.npcs[n].data.job.type \notin { "GATHER", "CRAFT" }
          /\ state.npcs[n].data.x = houses[state.npcs[n].data.id].x
          /\ state.npcs[n].data.x > 0
          /\ state.npcs[n].readyTime
                 = 10 * state.npcs[n].data.x + WAIT_TIME_AFTER_WALKING + WAIT_TIME_AFTER_PICK_UP

(***************************************************************************)
(* Nodes whose generator is in any state: the spawnState of a node is an   *)
(* input of the controller, and the first draw can be any fraction.        *)
(***************************************************************************)
\* tables with a positive sum: a tree, and tables with an entry of
\* probability zero at the start, in the middle and at the end
PositiveTables ==
    { resourceSpawnData,
      << [ type |-> "STICK", probability |-> 0, spawnTime |-> 60000 ],
         [ type |-> "WOOD", probability |-> 5, spawnTime |-> 60000 ] >>,
      << [ type |-> "STICK", probability |-> 5, spawnTime |-> 60000 ],
         [ type |-> "WOOD", probability |-> 0, spawnTime |-> 60000 ],
         [ type |-> "WATTLE_WALL", probability |-> 5, spawnTime |-> 60000 ] >>,
      << [ type |-> "STICK", probability |-> 5, spawnTime |-> 60000 ],
         [ type |-> "WOOD", probability |-> 0, spawnTime |-> 60000 ] >> }

\* saved states of the generator, with every value of the next draw
SavedStates ==
    { [ c |-> c, s0 |-> s0, s1 |-> 3, s2 |-> 9 ] :
        c \in { 0, 1 }, s0 \in 0 .. (RngModulus - 1) }

AnyDrawInit ==
    /\ NoInventory
    /\ NoCell
    /\ building = NoBuilding
    /\ walk = NoWalk
    /\ \E spawns \in PositiveTables, xg \in SavedStates :
          harvest = << [ controller |->
                             HarvestResourceController(
                                 [ id |-> "resource(0,0)", x |-> 0, y |-> 0,
                                   spawnSeed |-> "resource(0,0)",
                                   spawns |-> spawns, spawnState |-> << xg >> ]),
                         spawned    |-> << >>,
                         resumed    |-> << >> ] >>

AnyDrawSpec == AnyDrawInit /\ [][HarvestNext]_vars
\* the draw of the next spawn of a controller, in fractions of 1 / RngModulus
drawOf(this) == xgNext(this.rng).s2

\* the draw, multiplied by the sum of the probabilities, lies in the range
\* of entry k of the table: above the sum of the probabilities before the
\* entry and not above that sum with the entry's own probability
inRangeOf(this, k) ==
    LET spawns == this.resource.spawns
        below == sumProbability(SubSeq(spawns, 1, k - 1))
        pick == drawOf(this) * this.sumCumulativeProbability
    IN  /\ below * RngModulus < pick
        /\ pick <= (below + spawns[k].probability) * RngModulus

\* the next spawn of a controller is an item of one entry of the table, the
\* one in whose range the draw lies, and the entry has a probability
selectsOne(this) ==
    LET s == spawnOf(this).result
    IN  /\ s.error = NoError
        /\ \E k \in DOMAIN this.resource.spawns :
              /\ s.spawn[1].objectType = this.resource.spawns[k].type
              /\ this.resource.spawns[k].probability > 0
              /\ inRangeOf(this, k)
              /\ \A j \in DOMAIN this.resource.spawns : inRangeOf(this, j) => j = k

\* C37: whatever is drawn, spawn() on a table with a positive sum of
\* probabilities selects exactly one entry, the first of the reversed
\* cumulative table whose lower bound is below draw * sum, and never an
\* entry of probability zero
C37_SpawnSelectsOneEntry ==
    Harvest.controller.error = NoError /\ Harvest.controller.sumCumulativeProbability > 0 =>
        selectsOne(Harvest.controller)

\* the edges of a tile as walls are placed on them: the west and the north
\* edge are at the tile's own position, the east and the south edge at that
\* of the next tile
edgesOf(tile) ==
    { << "VERTICAL", tile.x, tile.y >>, << "VERTICAL", tile.x + 200, tile.y >>,
      << "HORIZONTAL", tile.x, tile.y >>, << "HORIZONTAL", tile.x, tile.y + 200 >> }

\* the edges that separate a floor from a location without a floor: those
\* that are an edge of exactly one floor
outerEdges(floors) ==
    { e \in UNION { edgesOf(floors[i]) : i \in DOMAIN floors } :
        Cardinality({ i \in DOMAIN floors : e \in edgesOf(floors[i]) }) = 1 }

\* the edges the walls are on
wallEdges(walls) ==
    { << walls[i].direction, walls[i].x, walls[i].y >> : i \in DOMAIN walls }

\* C38: after any sequence of constructBuilding calls from an empty site,
\* the walls are on exactly the edges between a floor and a location
\* without a floor, one wall an edge: 4 for a house of one tile, 8 for a
\* house of 2 x 2 tiles
C38_WallsAreTheOuterEdges ==
    isConstruction =>
        /\ wallEdges(Construction.walls) = outerEdges(Construction.floors)
        /\ Cardinality(wallEdges(Construction.walls)) = Len(Construction.walls)
        /\ Len(Construction.floors) = 1 => Len(Construction.walls) = 4

\* a house of 2 x 2 tiles with its 8 walls
C38_Witness ==
    /\ isConstruction
    /\ Construction.error = NoError
    /\ Len(Construction.houses) = 1
    /\ { << Construction.floors[i].x, Construction.floors[i].y >> :
           i \in DOMAIN Construction.floors }
           = { << 0, 0 >>, << 200, 0 >>, << 0, 200 >>, << 200, 200 >> }
    /\ Len(Construction.walls) = 8

(***************************************************************************)
(* The output events of a stockpile, replayed by a client.                 *)
(***************************************************************************)
\* the inventory states of the output of a stockpile in ascending order of
\* time, states of one time in the order of the output
statesInAscendingTime(stockpile) ==
    LET out == getStateStockpile(stockpile).inventoryState
    IN  SortBy(out, [ j \in DOMAIN out |-> out[j].time ])

\* the initial stockpile with the states of the output up to a time applied
RECURSIVE replayedUntil(_, _, _)
replayedUntil(acc, states, time) ==
    IF states = << >> \/ Head(states).time > time THEN acc
    ELSE replayedUntil(applyOneInventoryState(acc, Head(states)), Tail(states), time)

\* the ids and amounts of slots
idsAndAmounts(s) == { << s[n].id, s[n].amount >> : n \in DOMAIN s }

\* C39: the inventory states of the output of a stockpile, replayed in
\* ascending order of time on the initial stockpile, end with the slots
\* (ids and amounts) of the snapshot the run keeps of the stockpile, and at
\* no time in between hold more than rows x columns slots
C39_ReplayEndsInTheSnapshot ==
    getStateReturns =>
        \A i \in DOMAIN state.stockpiles :
            LET stockpile == state.stockpiles[i]
                states == statesInAscendingTime(stockpile)
                replayed(time) == replayedUntil(initialStockpile(stockpile), states, time)
            IN  /\ idsAndAmounts(replayed(farFuture).inventory.slots)
                       = idsAndAmounts(stockpile.inventory.slots)
                /\ Len(replayed(farFuture).inventory.slots)
                       = Len(stockpile.inventory.slots)
                /\ \A j \in DOMAIN states :
                       Len(replayed(states[j].time).inventory.slots)
                           <= stockpile.inventory.rows * stockpile.inventory.columns

(***************************************************************************)
(* A second planner, constructed with the output of a run at a later time  *)
(* `now' of the clock: what it plans from and what its output keeps of the *)
(* events of the first run.                                                 *)
(***************************************************************************)
\* the times at which the second planner may be constructed: the start of
\* the first run, or whole seconds later
SecondStarts == { now \in 0 .. MaxMilliseconds : now % 1000 = 0 }

\* internalApplyInventoryState(holder, false) at `now', then
\* inventoryState: []: the states that are due are applied, all are dropped
RECURSIVE applyDueInventoryStates(_, _, _)
applyDueInventoryStates(acc, states, now) ==
    IF states = << >> THEN [ acc EXCEPT !.inventoryState = << >> ]
    ELSE applyDueInventoryStates(IF now >= Head(states).time
                                 THEN applyOneInventoryState(acc, Head(states))
                                 ELSE acc,
                                 Tail(states), now)

\* the NPC of the output of the first run: the NPC the run was constructed
\* with, at the origin with the items it carried, with the path and the
\* inventory states of the run
outputNpc(npcEvent) ==
    LET Carried(obj) == obj.grabbedByNpcId = npcEvent.data.id
    IN  [ id             |-> npcEvent.data.id,
          x              |-> 0,
          y              |-> 0,
          path           |-> getStateNpc(npcEvent).path,
          inventory      |-> [ npcEvent.data.inventory EXCEPT
                                   !.slots = SelectSeq(objects, Carried) ],
          inventoryState |-> getStateNpc(npcEvent).inventoryState ]

\* applyPathToNpc(npc) of the constructor of the second planner: the
\* inventory of applyInventoryState, the place and path of
\* internalApplyPathToNpc
plannedNpc(npcEvent, now) ==
    LET npc == outputNpc(npcEvent)
    IN  [ inventory |-> applyDueInventoryStates(npc, npc.inventoryState, now).inventory,
          walked    |-> applyPathToNpc([ x |-> npc.x, y |-> npc.y, path |-> npc.path,
                                         inventoryState |-> npc.inventoryState ], now) ]

\* applyInventoryState(stockpile) of the constructor of the second planner
plannedStockpile(stockpile, now) ==
    applyDueInventoryStates(initialStockpile(stockpile),
                            getStateStockpile(stockpile).inventoryState, now)

\* applyStateToResource(resource) of the constructor of the second planner,
\* on the resource of the output: the resource the first run was
\* constructed with, with the events of the run as its states
plannedResource(resource, now) ==
    applyStates([ resource EXCEPT !.depleted = FALSE, !.readyTime = 0, !.spawnState = 0 ],
                listAt(state.resourceEvents, resource.id), now)

\* an inventory state is reflected in an inventory: applying it changes
\* no slot
inInventory(owner, inventoryState) ==
    applyOneInventoryState(owner, inventoryState).inventory.slots = owner.inventory.slots

\* an event of a resource is reflected in the resource: its state is that
\* of the resource, or the resource is depleted until the respawn
inResource(resource, event) ==
    \/ Spread(resource, event.state) = resource
    \/ ~event.state.depleted /\ resource.depleted /\ resource.readyTime = event.time

\* a path point is kept in the path the second planner appends to, or the
\* NPC is at its place
onPath(walked, point) ==
    \/ \E j \in DOMAIN walked.path : walked.path[j] = point
    \/ /\ walked.x = Fraction(point.location.x, 1)
       /\ walked.y = Fraction(point.location.y, 1)

\* no event of the first run that is later than `now' is lost.  The second
\* planner empties the inventoryState of its NPCs and stockpiles and the
\* state of its resources, and its output lists the events of its own run
\* only: an event is kept when the state that is planned from reflects it
nothingLost(now) ==
    /\ \A i \in DOMAIN state.npcs :
          /\ \A j \in DOMAIN outputNpc(state.npcs[i]).inventoryState :
                outputNpc(state.npcs[i]).inventoryState[j].time > now =>
                    inInventory(plannedNpc(state.npcs[i], now),
                                outputNpc(state.npcs[i]).inventoryState[j])
          /\ \A j \in DOMAIN outputNpc(state.npcs[i]).path :
                outputNpc(state.npcs[i]).path[j].time > now =>
                    onPath(plannedNpc(state.npcs[i], now).walked,
                           outputNpc(state.npcs[i]).path[j])
    /\ \A i \in DOMAIN state.stockpiles :
          \A j \in DOMAIN getStateStockpile(state.stockpiles[i]).inventoryState :
              getStateStockpile(state.stockpiles[i]).inventoryState[j].time > now =>
                  inInventory(plannedStockpile(state.stockpiles[i], now),
                              getStateStockpile(state.stockpiles[i]).inventoryState[j])
    /\ \A i \in DOMAIN state.resources :
          \A j \in DOMAIN listAt(state.resourceEvents, state.resources[i].id) :
              listAt(state.resourceEvents, state.resources[i].id)[j].time > now =>
                  inResource(plannedResource(state.resources[i], now),
                             listAt(state.resourceEvents, state.resources[i].id)[j])

\* C40: when a second planner is constructed with the output of a run while
\* events of that run are still to come, every such event (path point, NPC
\* or stockpile inventory state, depletion or respawn of a resource) is
\* kept in the timeline of the second planner or reflected in the state it
\* plans from
C40_NoScheduledEffectIsLost ==
    getStateReturns => \A now \in SecondStarts : nothingLost(now)

=============================================================================
